---- MODULE Spec2Model ----
(***************************************************************************)
(* nest-drizzle-pagination: the query parser (QueryParserService), the     *)
(* filter-operator evaluator (applyFilterOperator), the keyset WHERE       *)
(* builder (buildCursorWhereClause) and the executor (PaginationService),  *)
(* over an abstract query backend.                                         *)
(*                                                                         *)
(* JavaScript values are tagged records: the field t is the type tag.      *)
(* A string is a sequence of one-character strings, so that split, trim,   *)
(* toUpperCase and parseInt are computed character by character.           *)
(***************************************************************************)
EXTENDS Integers, Sequences, FiniteSets, TLC

VARIABLES
    dto,        \* the DTO class handed to parse: @Pagination options and decorated properties
    params,     \* raw query parameters of the current request
    extra,      \* extraConditions handed to execute
    db,         \* rows of the backing table
    pc,         \* position of the request: "parse", "execute", "done"
    request,    \* PaginatedQueryResult returned by parse
    error,      \* exception thrown by parse or execute
    queries,    \* queries awaited so far by the executor
    response,   \* page returned by execute
    visited,    \* rows returned so far by a cursor traversal
    whereArgs,  \* arguments of a direct call of buildCursorWhereClause, and a candidate row
    whereResult, \* what that call returned or threw
    filterArgs, \* arguments of a direct call of applyFilterOperator
    filterResult, \* what that call returned or threw
    calls,      \* the concurrent calls of parse and execute, each with its own locals
    writes      \* what other clients wrote during a traversal

vars == <<dto, params, extra, db, pc, request, error, queries, response, visited,
          whereArgs, whereResult, filterArgs, filterResult, calls, writes>>

-----------------------------------------------------------------------------
(* JavaScript values *)

Undef == [t |-> "undefined"]
Null == [t |-> "null"]
NaN == [t |-> "NaN"]
Num(n) == [t |-> "number", n |-> n]
Str(s) == [t |-> "string", s |-> s]
Arr(items) == [t |-> "array", items |-> items]
Bool(b) == [t |-> "boolean", b |-> b]
\* a string that names a property of an object (a key of a row or of a cursor)
Key(k) == [t |-> "key", key |-> k]
\* a function value, known by its name
Fn(name) == [t |-> "function", name |-> name]

\* JavaScript truthiness, as tested by `if (x)`, `!x` and `x || y`
Truthy(v) ==
    CASE v.t = "undefined" -> FALSE
      [] v.t = "null" -> FALSE
      [] v.t = "NaN" -> FALSE
      [] v.t = "number" -> v.n # 0
      [] v.t = "boolean" -> v.b
      [] v.t = "string" -> IF "s" \in DOMAIN v THEN v.s # <<>> ELSE TRUE
      [] v.t = "key" -> v.key # ""
      [] OTHER -> TRUE

\* An optional property of an options object: <<>> when not set, <<v>> when set
None == <<>>
Some(v) == <<v>>
\* x ?? d
OrElse(x, d) == IF x = <<>> THEN d ELSE x[1]

\* obj[key] of a plain object
Get(obj, key) == IF key \in DOMAIN obj THEN obj[key] ELSE Undef

Ok(v) == [ok |-> TRUE, val |-> v]
Throw(e) == [ok |-> FALSE, err |-> e]
NoError == [class |-> "none"]

-----------------------------------------------------------------------------
(* Strings *)

Digits == {"0", "1", "2", "3", "4", "5", "6", "7", "8", "9"}

DigitVal(c) ==
    CASE c = "0" -> 0 [] c = "1" -> 1 [] c = "2" -> 2 [] c = "3" -> 3
      [] c = "4" -> 4 [] c = "5" -> 5 [] c = "6" -> 6 [] c = "7" -> 7
      [] c = "8" -> 8 [] c = "9" -> 9

WhiteSpace == {" "}

UpperChar(c) ==
    CASE c = "a" -> "A" [] c = "b" -> "B" [] c = "c" -> "C" [] c = "d" -> "D"
      [] c = "e" -> "E" [] c = "f" -> "F" [] c = "g" -> "G" [] c = "h" -> "H"
      [] c = "i" -> "I" [] c = "j" -> "J" [] c = "k" -> "K" [] c = "l" -> "L"
      [] c = "m" -> "M" [] c = "n" -> "N" [] c = "o" -> "O" [] c = "p" -> "P"
      [] c = "q" -> "Q" [] c = "r" -> "R" [] c = "s" -> "S" [] c = "t" -> "T"
      [] c = "u" -> "U" [] c = "v" -> "V" [] c = "w" -> "W" [] c = "x" -> "X"
      [] c = "y" -> "Y" [] c = "z" -> "Z" [] OTHER -> c

\* s.toUpperCase()
ToUpperCase(s) == [i \in 1..Len(s) |-> UpperChar(s[i])]

\* number of leading characters of s that are in the set cs
LeadingIn(s, cs) ==
    Cardinality({k \in 1..Len(s) : \A i \in 1..k : s[i] \in cs})

\* number of leading characters of s that are not in the set cs
LeadingNotIn(s, cs) ==
    Cardinality({k \in 1..Len(s) : \A i \in 1..k : s[i] \notin cs})

\* number of trailing characters of s that are in the set cs
TrailingIn(s, cs) ==
    Cardinality({k \in 1..Len(s) : \A i \in (Len(s) - k + 1)..Len(s) : s[i] \in cs})

DropLeading(s, n) == SubSeq(s, n + 1, Len(s))
DropTrailing(s, n) == SubSeq(s, 1, Len(s) - n)

\* s.trimEnd()
TrimEnd(s) == DropTrailing(s, TrailingIn(s, WhiteSpace))

\* s.trim()
Trim(s) == TrimEnd(DropLeading(s, LeadingIn(s, WhiteSpace)))

\* s.split(','): the pieces between the commas, empty pieces kept
RECURSIVE Split(_)
RECURSIVE SplitAt(_, _)
SplitAt(s, n) ==
    IF n = Len(s) THEN <<s>>
    ELSE <<SubSeq(s, 1, n)>> \o Split(DropLeading(s, n + 1))

Split(s) == SplitAt(s, LeadingNotIn(s, {","}))

RECURSIVE DecVal(_)
DecVal(ds) ==
    IF ds = <<>> THEN 0
    ELSE 10 * DecVal(SubSeq(ds, 1, Len(ds) - 1)) + DigitVal(ds[Len(ds)])

\* the number read from a sign and the digits that follow it: NaN without a digit
SignedValue(negative, ds) ==
    IF ds = <<>> THEN NaN
    ELSE Num(IF negative THEN 0 - DecVal(ds) ELSE DecVal(ds))

\* the longest run of decimal digits at the start of u; what follows it is ignored
DigitsPrefix(u) == SubSeq(u, 1, LeadingIn(u, Digits))

\* t is the text after the leading white space: an optional sign, then the digits
ParseSigned(t) ==
    IF t # <<>> /\ t[1] \in {"-", "+"}
    THEN SignedValue(t[1] = "-", DigitsPrefix(Tail(t)))
    ELSE SignedValue(FALSE, DigitsPrefix(t))

\* parseInt(s, 10)
ParseIntStr(s) == ParseSigned(DropLeading(s, LeadingIn(s, WhiteSpace)))

\* parseInt(v, 10) of a query parameter value
ParseInt(v) == IF v.t = "string" /\ "s" \in DOMAIN v THEN ParseIntStr(v.s) ELSE NaN

\* JavaScript arithmetic on numbers: NaN propagates
NumSub(x, k) == IF x.t = "number" THEN Num(x.n - k) ELSE NaN
NumMul(x, k) == IF x.t = "number" THEN Num(x.n * k) ELSE NaN

-----------------------------------------------------------------------------
(* Metadata and options *)

\* A Drizzle column of the table: its `name` is what getColumnName returns, and the
\* backend returns its value under that key of a result row
Col(name) == [kind |-> "column", name |-> name]

ASC == <<"A", "S", "C">>
DESC == <<"D", "E", "S", "C">>

DefaultLimit == 10
DefaultMaxLimit == 100

\* throwBadRequestException(message): the message's variable parts are kept as fields
BadRequest(code, detail) == [class |-> "BadRequestException", code |-> code, detail |-> detail]
\* throw new Error(message)
PlainError(code, detail) == [class |-> "Error", code |-> code, detail |-> detail]

\* paginationOptions.paginationType ?? 'both'
AllowedType(options) == OrElse(options.paginationType, "both")

\* the least element of a non-empty set of indices
Least(idx) == CHOOSE i \in idx : \A j \in idx : i <= j
\* the greatest element of a non-empty set of indices
Greatest(idx) == CHOOSE i \in idx : \A j \in idx : j <= i

\* the first exception among the results rs of a loop, or Ok of all their values
FirstThrow(rs) ==
    IF \E i \in 1..Len(rs) : ~rs[i].ok
    THEN rs[Least({i \in 1..Len(rs) : ~rs[i].ok})]
    ELSE Ok([i \in 1..Len(rs) |-> rs[i].val])

-----------------------------------------------------------------------------
(* QueryParserService *)

validateQueryTypeNeverRejects(allowedType, queryParams) ==
    IF allowedType = "both"
    THEN Ok(IF Truthy(Get(queryParams, "page")) THEN "offset" ELSE "cursor")
    ELSE Ok(allowedType)

validateQueryType(allowedType, queryParams) ==
    CASE allowedType = "offset" ->
            IF Truthy(Get(queryParams, "cursor"))
            THEN Throw(BadRequest("CursorNotEnabled", <<>>))
            ELSE Ok("offset")
      [] allowedType = "cursor" ->
            IF Truthy(Get(queryParams, "page"))
            THEN Throw(BadRequest("OffsetNotEnabled", <<>>))
            ELSE Ok("cursor")
      [] OTHER ->
            Ok(IF Truthy(Get(queryParams, "page")) THEN "offset" ELSE "cursor")

\* ss.filter((s) => s): the empty strings dropped
RECURSIVE NonEmptyOnly(_)
NonEmptyOnly(ss) ==
    IF ss = <<>> THEN <<>>
    ELSE (IF Head(ss) # <<>> THEN <<Head(ss)>> ELSE <<>>) \o NonEmptyOnly(Tail(ss))

\* pieces.map((s) => s.trim())
TrimAll(pieces) == [i \in 1..Len(pieces) |-> Trim(pieces[i])]

parseSortArray(sortString) ==
    CASE sortString.t = "string" -> NonEmptyOnly(TrimAll(Split(sortString.s)))
      [] sortString.t = "array" ->
            [i \in 1..Len(sortString.items) |-> sortString.items[i].s]
      [] OTHER -> <<>>

\* the checks of parseLimit on the `limit` parameter and its parseInt
checkLimitNoMax(allowCustomLimit, defaultLimit, maxLimit, given, requestedLimit) ==
    IF ~allowCustomLimit \/ ~Truthy(given) THEN Ok(defaultLimit)
    ELSE IF requestedLimit.t = "NaN" \/ requestedLimit.n <= 0
    THEN Throw(BadRequest("InvalidLimit", <<given>>))
    ELSE Ok(requestedLimit.n)

checkLimit(allowCustomLimit, defaultLimit, maxLimit, given, requestedLimit) ==
    IF ~allowCustomLimit \/ ~Truthy(given) THEN Ok(defaultLimit)
    ELSE IF requestedLimit.t = "NaN" \/ requestedLimit.n <= 0
    THEN Throw(BadRequest("InvalidLimit", <<given>>))
    ELSE IF requestedLimit.n > maxLimit
    THEN Throw(BadRequest("LimitExceedsMax", <<requestedLimit.n, maxLimit>>))
    ELSE Ok(requestedLimit.n)

parseLimit(queryParams, paginationOptions) ==
    checkLimit(OrElse(paginationOptions.allowCustomLimit, TRUE),
               OrElse(paginationOptions.limit, DefaultLimit),
               OrElse(paginationOptions.maxLimit, DefaultMaxLimit),
               Get(queryParams, "limit"),
               ParseInt(Get(queryParams, "limit")))

\* defaultSort.map(sortDef => ({propertyKey: '', column, order: order.toUpperCase()}))
defaultInstructions(defaultSort) ==
    [i \in 1..Len(defaultSort) |->
        [propertyKey |-> "",
         column |-> defaultSort[i].field,
         order |-> ToUpperCase(defaultSort[i].order)]]

getDefaultSorting(paginationOptions) ==
    defaultInstructions(OrElse(paginationOptions.defaultSort, <<>>))

\* the value of one filter: the parameter, or the default when the parameter is undefined
filterValueNoDefault(given, default) == given
filterValue(given, default) ==
    IF given.t = "undefined" /\ default.t # "undefined" THEN default ELSE given

\* the instruction pushed for one filter metadata, if its value is present and non-empty
filterPush(prop, meta, value) ==
    IF value.t # "undefined" /\ value.t # "null" /\ value # Str(<<>>)
    THEN <<[propertyKey |-> prop.propertyKey,
            column |-> prop.column,
            operator |-> meta.operator,
            value |-> value]>>
    ELSE <<>>

\* the filter instructions of one decorated property, in the order of its decorators
RECURSIVE propFilters(_, _, _)
propFilters(prop, metas, queryParams) ==
    IF metas = <<>> THEN <<>>
    ELSE filterPush(prop, Head(metas),
                    filterValue(Get(queryParams, Head(metas).alias), Head(metas).default))
            \o propFilters(prop, Tail(metas), queryParams)

RECURSIVE parseFilters(_, _)
parseFilters(props, queryParams) ==
    IF props = <<>> THEN <<>>
    ELSE propFilters(Head(props), Head(props).filters, queryParams)
            \o parseFilters(Tail(props), queryParams)

\* whether the property's @Sortable metadata is enabled
IsSortable(prop) == prop.sortable # None /\ prop.sortable[1].enabled

\* availableSortableAliases: the aliases in decoration order
RECURSIVE availableAliases(_)
availableAliases(props) ==
    IF props = <<>> THEN <<>>
    ELSE (IF IsSortable(Head(props)) THEN <<Head(props).sortable[1].alias>> ELSE <<>>)
            \o availableAliases(Tail(props))

\* the indices of the sortable properties registered under the alias
aliasHits(props, alias) ==
    {k \in 1..Len(props) : IsSortable(props[k]) /\ props[k].sortable[1].alias = alias}

\* one step of the loop over sortByArray, given the alias, the upper-cased order and
\* the properties found under the alias: the instruction pushed, or the exception.
\* sortableAliasMap.set overwrites, so the last property registered wins
sortStepWith(props, sortByAlias, order, hits) ==
    IF hits = {}
    THEN Throw(BadRequest("InvalidSortField", <<sortByAlias, availableAliases(props)>>))
    ELSE IF order # ASC /\ order # DESC
    THEN Throw(BadRequest("InvalidSortOrder", <<order, sortByAlias>>))
    ELSE Ok([propertyKey |-> props[Greatest(hits)].propertyKey,
             column |-> props[Greatest(hits)].column,
             order |-> order])

\* sortOrderArray[i] || 'ASC'
orderToken(sortOrderArray, i) ==
    IF i <= Len(sortOrderArray) /\ sortOrderArray[i] # <<>> THEN sortOrderArray[i] ELSE ASC

sortStep(props, sortByArray, sortOrderArray, i) ==
    sortStepWith(props, sortByArray[i], ToUpperCase(orderToken(sortOrderArray, i)),
                 aliasHits(props, sortByArray[i]))

\* the loop over sortByArray and the return of parseSorting
sortLoop(props, paginationOptions, sortByArray, sortOrderArray) ==
    FirstThrow([i \in 1..Len(sortByArray) |-> sortStep(props, sortByArray, sortOrderArray, i)])

\* sorting.length > 0 ? sorting : getDefaultSorting(paginationOptions)
sortReturn(paginationOptions, looped) ==
    IF ~looped.ok THEN looped
    ELSE IF Len(looped.val) > 0 THEN looped
    ELSE Ok(getDefaultSorting(paginationOptions))

sortCustomAnyCount(props, paginationOptions, allowMultipleSort, sortByArray, sortOrderArray) ==
    sortReturn(paginationOptions,
               sortLoop(props, paginationOptions, sortByArray, sortOrderArray))
sortCustom(props, paginationOptions, allowMultipleSort, sortByArray, sortOrderArray) ==
    IF ~allowMultipleSort /\ Len(sortByArray) > 1
    THEN Throw(BadRequest("MultipleSortFields", <<Len(sortByArray), sortByArray>>))
    ELSE sortReturn(paginationOptions,
                    sortLoop(props, paginationOptions, sortByArray, sortOrderArray))

parseSorting(props, queryParams, paginationOptions) ==
    IF ~OrElse(paginationOptions.allowCustomSort, TRUE) \/ ~Truthy(Get(queryParams, "sortBy"))
    THEN Ok(getDefaultSorting(paginationOptions))
    ELSE sortCustom(props, paginationOptions,
                    OrElse(paginationOptions.allowMultipleSort, TRUE),
                    parseSortArray(Get(queryParams, "sortBy")),
                    IF Truthy(Get(queryParams, "sortOrder"))
                    THEN parseSortArray(Get(queryParams, "sortOrder")) ELSE <<>>)

\* queryParams.page ? parseInt(queryParams.page, 10) : 1
pageOf(queryParams) ==
    IF Truthy(Get(queryParams, "page")) THEN ParseInt(Get(queryParams, "page")) ELSE Num(1)

\* (page - 1) * limit
offsetOfNoMinus(page, limit) == NumMul(page, limit)
offsetOf(page, limit) == NumMul(NumSub(page, 1), limit)

\* the result of parse for a cursor request
cursorResult(filters, sorting, limit, paginationOptions, cursor) ==
    [filters |-> filters, sorting |-> sorting, limit |-> limit,
     paginationType |-> "cursor", paginationOptions |-> paginationOptions,
     cursor |-> cursor]

\* the result of parse for an offset request
offsetResult(filters, sorting, limit, paginationOptions, page) ==
    [filters |-> filters, sorting |-> sorting, limit |-> limit,
     paginationType |-> "offset", paginationOptions |-> paginationOptions,
     page |-> page, offset |-> offsetOf(page, limit)]

\* the result object and its position fields
resultOfSwapped(paginationType, filters, sorting, limit, paginationOptions, queryParams) ==
    IF paginationType = "cursor"
    THEN offsetResult(filters, sorting, limit, paginationOptions, pageOf(queryParams))
    ELSE cursorResult(filters, sorting, limit, paginationOptions, Get(queryParams, "cursor"))
resultOf(paginationType, filters, sorting, limit, paginationOptions, queryParams) ==
    IF paginationType = "cursor"
    THEN cursorResult(filters, sorting, limit, paginationOptions, Get(queryParams, "cursor"))
    ELSE offsetResult(filters, sorting, limit, paginationOptions, pageOf(queryParams))

\* parse after its four steps: the first exception in the order of the steps
\* (validateQueryType, parseSorting, parseLimit; parseFilters throws nothing), or the result
parseSteps(paginationOptions, queryParams, paginationType, filters, sorting, limit) ==
    IF ~paginationType.ok THEN paginationType
    ELSE IF ~sorting.ok THEN sorting
    ELSE IF ~limit.ok THEN limit
    ELSE Ok(resultOf(paginationType.val, filters, sorting.val, limit.val,
                     paginationOptions, queryParams))

parse(dtoClass, queryParams) ==
    parseSteps(dtoClass.options, queryParams,
               validateQueryType(AllowedType(dtoClass.options), queryParams),
               parseFilters(dtoClass.props, queryParams),
               parseSorting(dtoClass.props, queryParams, dtoClass.options),
               parseLimit(queryParams, dtoClass.options))

NoCall == [called |-> FALSE]
NoRequest == [paginationType |-> "none"]
NoResponse == [kind |-> "none"]

-----------------------------------------------------------------------------
(* Predicates handed to the query backend (drizzle-orm SQL conditions) *)

NoPred == [op |-> "none"]
Rel(op, column, value) == [op |-> op, col |-> column, val |-> value]
\* and(...conditions): undefined when there is no condition
And(conds) == IF conds = <<>> THEN NoPred ELSE [op |-> "and", args |-> conds]
\* or(...conditions)
Or(conds) == IF conds = <<>> THEN NoPred ELSE [op |-> "or", args |-> conds]

\* `%${value}%`
LikePattern(value) ==
    Str(<<"%">> \o (IF value.t = "string" /\ "s" \in DOMAIN value THEN value.s ELSE <<>>) \o <<"%">>)

\* whether the value is one of the keys of the conditions mapping
IsConditionKey(conditions, value) ==
    /\ value.t = "string"
    /\ "s" \in DOMAIN value
    /\ \E i \in 1..Len(conditions.keys) : conditions.keys[i] = value.s

applyFilterOperator(column, operator, value, builder, table, conditions) ==
    CASE operator = "eq" -> Ok(Rel("eq", column, value))
      [] operator = "neq" -> Ok(Rel("ne", column, value))
      [] operator = "gt" -> Ok(Rel("gt", column, value))
      [] operator = "lt" -> Ok(Rel("lt", column, value))
      [] operator = "gte" -> Ok(Rel("gte", column, value))
      [] operator = "lte" -> Ok(Rel("lte", column, value))
      [] operator = "like" -> Ok(Rel("ilike", column, LikePattern(value)))
      [] operator = "exists" ->
            IF ~Truthy(builder) THEN Throw(PlainError("ExistsBuilderRequired", <<>>))
            ELSE IF ~Truthy(table) THEN Throw(PlainError("ExistsTableRequired", <<>>))
            ELSE Ok([op |-> "exists", table |-> table,
                     where |-> [op |-> "built", by |-> builder, col |-> column, val |-> value]])
      [] operator = "switch" ->
            IF ~Truthy(conditions) \/ conditions.keys = <<>>
            THEN Throw(PlainError("SwitchConditionsRequired", <<>>))
            ELSE IF ~IsConditionKey(conditions, value)
            THEN Throw(PlainError("InvalidSwitchValue", <<value, conditions.keys>>))
            ELSE Ok([op |-> "condition", of |-> conditions, key |-> value.s, col |-> column])
      [] operator = "custom" ->
            IF ~Truthy(builder) THEN Throw(PlainError("CustomBuilderRequired", <<>>))
            ELSE Ok([op |-> "built", by |-> builder, col |-> column, val |-> value])
      [] OTHER -> Throw(PlainError("UnsupportedOperator", <<operator>>))

\* filters.map((filter) => applyFilterOperator(...)): the conditions, or the first exception
filterConditions(filters) ==
    FirstThrow([i \in 1..Len(filters) |->
        applyFilterOperator(filters[i].column, filters[i].operator, filters[i].value,
            Get(filters[i], "builder"), Get(filters[i], "table"),
            Get(filters[i], "conditions"))])

-----------------------------------------------------------------------------
(* Keyset WHERE builder (cursor-where-builder) *)

\* getColumnName of the builder: the column's name, or an Error when it has none
getColumnNameW(column) ==
    IF "name" \in DOMAIN column THEN Ok(column.name)
    ELSE Throw(PlainError("NoColumnName", <<>>))

\* getCursorKey of the builder: propertyKey > string sqlProperty > column name
getCursorKeyW(sort) ==
    IF sort.propertyKey # "" THEN Ok(sort.propertyKey)
    ELSE IF Get(sort, "sqlProperty").t = "key" /\ Get(sort, "sqlProperty").key # ""
    THEN Ok(Get(sort, "sqlProperty").key)
    ELSE getColumnNameW(sort.column)

\* the key of a sort instruction as text ('' when getCursorKey throws)
keyText(sort) == IF getCursorKeyW(sort).ok THEN getCursorKeyW(sort).val ELSE ""

getComparisonOperatorAlwaysGt(column, value, order) == Rel("gt", column, value)
getComparisonOperator(column, value, order) ==
    IF ToUpperCase(order) = ASC THEN Rel("gt", column, value) ELSE Rel("lt", column, value)

\* eq(sort.column, cursorValues[getCursorKey(sort)]) for the first n instructions
equalityConditions(sortInstructions, cursorValues, n) ==
    [j \in 1..n |-> Rel("eq", sortInstructions[j].column,
                        Get(cursorValues, keyText(sortInstructions[j])))]

\* the condition pushed by the i-th iteration of the loop over sortInstructions
positionClauseNoEquality(sortInstructions, cursorValues, i) ==
    getComparisonOperator(sortInstructions[i].column,
                          Get(cursorValues, keyText(sortInstructions[i])),
                          sortInstructions[i].order)
positionClause(sortInstructions, cursorValues, i) ==
    IF i = 1
    THEN getComparisonOperator(sortInstructions[i].column,
                               Get(cursorValues, keyText(sortInstructions[i])),
                               sortInstructions[i].order)
    ELSE And(equalityConditions(sortInstructions, cursorValues, i - 1)
             \o <<getComparisonOperator(sortInstructions[i].column,
                                        Get(cursorValues, keyText(sortInstructions[i])),
                                        sortInstructions[i].order)>>)

positionStepUnchecked(sortInstructions, cursorValues, i) ==
    Ok(positionClause(sortInstructions, cursorValues, i))
\* the i-th iteration: the exception it throws, or the condition it pushes
positionStep(sortInstructions, cursorValues, i) ==
    IF ~getCursorKeyW(sortInstructions[i]).ok THEN getCursorKeyW(sortInstructions[i])
    ELSE IF Get(cursorValues, keyText(sortInstructions[i])).t = "undefined"
    THEN Throw(PlainError("CursorMissingValue", <<keyText(sortInstructions[i])>>))
    ELSE Ok(positionClause(sortInstructions, cursorValues, i))

\* and(...finalEqualityConditions, idComparison)
finalClause(sortInstructions, cursorValues, cursorIdField, idFieldName) ==
    And(equalityConditions(sortInstructions, cursorValues, Len(sortInstructions))
        \o <<getComparisonOperator(cursorIdField, Get(cursorValues, idFieldName),
                                   sortInstructions[Len(sortInstructions)].order)>>)

\* or(...conditions) of the loop's conditions and the final one
whereOf(sortInstructions, cursorValues, cursorIdField, idFieldName, steps) ==
    IF ~steps.ok THEN steps
    ELSE Ok(Or(steps.val
               \o <<finalClause(sortInstructions, cursorValues, cursorIdField, idFieldName)>>))

\* buildCursorWhereClause once the id column's name is known
whereWithId(sortInstructions, cursorValues, cursorIdField, idFieldName) ==
    IF ~idFieldName.ok THEN idFieldName
    ELSE IF idFieldName.val \notin DOMAIN cursorValues
    THEN Throw(PlainError("CursorMissingId", <<idFieldName.val>>))
    ELSE whereOf(sortInstructions, cursorValues, cursorIdField, idFieldName.val,
                 FirstThrow([i \in 1..Len(sortInstructions) |->
                                positionStep(sortInstructions, cursorValues, i)]))

buildCursorWhereClause(sortInstructions, cursorValues, cursorIdField) ==
    IF Len(sortInstructions) = 0 THEN Ok(NoPred)
    ELSE whereWithId(sortInstructions, cursorValues, cursorIdField,
                     getColumnNameW(cursorIdField))

-----------------------------------------------------------------------------
(* Cursor codec (cursor.utils): an opaque token that decodes to the values encoded *)

Token(values) == [t |-> "string", b64 |-> values]

encodeCursor(values) == Token(values)

\* a string that is not a token does not decode
decodeCursor(cursor) ==
    IF cursor.t = "string" /\ "b64" \in DOMAIN cursor THEN Ok(cursor.b64)
    ELSE Throw(BadRequest("InvalidCursor", <<>>))

-----------------------------------------------------------------------------
(* Query backend: the awaited Drizzle query, over a table of rows with integer      *)
(* columns.  A row is a record keyed by column name; its id is unique.              *)

\* the integer a value denotes when compared with an integer column, if any
SqlNum(v) ==
    CASE v.t = "number" -> Some(v.n)
      [] v.t = "string" /\ "s" \in DOMAIN v /\ v.s # <<>> /\ LeadingIn(v.s, Digits) = Len(v.s) ->
            Some(DecVal(v.s))
      [] OTHER -> None

\* a comparison of two integers
Compare(op, x, y) ==
    CASE op = "eq" -> x = y
      [] op = "ne" -> x # y
      [] op = "gt" -> x > y
      [] op = "lt" -> x < y
      [] op = "gte" -> x >= y
      [] op = "lte" -> x <= y

\* whether the row satisfies the predicate.  Conditions the backend cannot interpret
\* over integers (patterns, builder output, sub-queries) admit every row
RECURSIVE Eval(_, _)
Eval(pred, row) ==
    CASE pred.op = "none" -> TRUE
      [] pred.op = "and" -> \A i \in 1..Len(pred.args) : Eval(pred.args[i], row)
      [] pred.op = "or" -> \E i \in 1..Len(pred.args) : Eval(pred.args[i], row)
      [] pred.op \in {"eq", "ne", "gt", "lt", "gte", "lte"} ->
            /\ pred.col.name \in DOMAIN row
            /\ SqlNum(pred.val) # None
            /\ Compare(pred.op, row[pred.col.name].n, SqlNum(pred.val)[1])
      [] OTHER -> TRUE

\* ORDER BY: r1 comes before r2 from the k-th ordering column on; rows equal on every
\* ordering column come in storage order, which is the order of their ids
RECURSIVE RowBefore(_, _, _, _)
RowBefore(r1, r2, orderBy, k) ==
    IF k > Len(orderBy) THEN r1.id.n < r2.id.n
    ELSE IF r1[orderBy[k].col.name].n = r2[orderBy[k].col.name].n
    THEN RowBefore(r1, r2, orderBy, k + 1)
    ELSE IF orderBy[k].dir = "asc"
    THEN r1[orderBy[k].col.name].n < r2[orderBy[k].col.name].n
    ELSE r1[orderBy[k].col.name].n > r2[orderBy[k].col.name].n

\* the rows of the set in the order of orderBy
SortRows(rowSet, orderBy) ==
    [i \in 1..Cardinality(rowSet) |->
        CHOOSE r \in rowSet :
            Cardinality({q \in rowSet : RowBefore(q, r, orderBy, 1)}) = i - 1]

\* the rows of the table that satisfy the predicate
Matching(where, rows) == {r \in rows : Eval(where, r)}

\* OFFSET skip LIMIT count over the ordered rows
Window(sorted, skip, count) ==
    SubSeq(sorted, skip + 1, IF skip + count < Len(sorted) THEN skip + count ELSE Len(sorted))

\* whether the predicate compares an integer column with a value that is not an integer
RECURSIVE IllTyped(_)
IllTyped(pred) ==
    CASE pred.op \in {"and", "or"} -> \E i \in 1..Len(pred.args) : IllTyped(pred.args[i])
      [] pred.op \in {"eq", "ne", "gt", "lt", "gte", "lte"} -> SqlNum(pred.val) = None
      [] OTHER -> FALSE

\* the awaited query: its rows, or the backend's error for an OFFSET that is not a
\* non-negative integer and for a comparison of an integer column with another value
Backend(query, rows) ==
    IF query.offset # None /\ (query.offset[1].t # "number" \/ query.offset[1].n < 0)
    THEN Throw([class |-> "QueryError", code |-> "InvalidOffset", detail |-> <<>>])
    ELSE IF IllTyped(query.where)
    THEN Throw([class |-> "QueryError", code |-> "InvalidInput", detail |-> <<>>])
    ELSE Ok(Window(SortRows(Matching(query.where, rows), query.orderBy),
                   IF query.offset = None THEN 0 ELSE query.offset[1].n,
                   query.limit))

-----------------------------------------------------------------------------
(* PaginationService *)

\* getColumnName of the service: the column's name, or '' when it has none
getColumnName(column) == IF "name" \in DOMAIN column THEN column.name ELSE ""

\* getCursorKey of the service: propertyKey > string sqlProperty > column name
getCursorKey(sort) ==
    IF sort.propertyKey # "" THEN sort.propertyKey
    ELSE IF Get(sort, "sqlProperty").t = "key" /\ Get(sort, "sqlProperty").key # ""
    THEN Get(sort, "sqlProperty").key
    ELSE getColumnName(sort.column)

ensureIdInSortingNever(sorting, cursorIdField) == sorting
ensureIdInSorting(sorting, cursorIdField) ==
    IF \E i \in 1..Len(sorting) : getColumnName(sorting[i].column) = getColumnName(cursorIdField)
    THEN sorting
    ELSE sorting \o <<[propertyKey |-> getColumnName(cursorIdField),
                       column |-> cursorIdField,
                       order |-> ASC]>>

\* sorting.map(sort => sort.order.toUpperCase() === 'DESC' ? desc(column) : asc(column))
orderByColumns(sorting) ==
    [i \in 1..Len(sorting) |->
        [dir |-> IF ToUpperCase(sorting[i].order) = DESC THEN "desc" ELSE "asc",
         col |-> sorting[i].column]]

\* the value read from the record under a field name, or the Error when it has no such field
fieldOf(record, field) ==
    IF field \in DOMAIN record THEN Ok(record[field])
    ELSE Throw(PlainError("FieldNotInRecord", <<field>>))

\* the value extracted for one sort instruction.  A function sqlProperty is known by
\* the field of the record it returns
cursorValueOf(record, sort, sqlProperty, cursorKey) ==
    IF Truthy(sqlProperty)
    THEN IF sqlProperty.t = "function" THEN Ok(Get(record, sqlProperty.name))
         ELSE fieldOf(record, sqlProperty.key)
    ELSE fieldOf(record, cursorKey)

\* the values object: a later instruction overwrites an earlier one with the same key
valuesObject(sortInstructions, extracted) ==
    IF ~extracted.ok THEN extracted
    ELSE Ok([k \in {getCursorKey(sortInstructions[i]) : i \in 1..Len(sortInstructions)} |->
                extracted.val[Greatest({i \in 1..Len(sortInstructions) :
                                            getCursorKey(sortInstructions[i]) = k})]])

extractCursorValuesFromRecord(record, sortInstructions) ==
    valuesObject(sortInstructions,
        FirstThrow([i \in 1..Len(sortInstructions) |->
            cursorValueOf(record, sortInstructions[i],
                          Get(sortInstructions[i], "sqlProperty"),
                          getCursorKey(sortInstructions[i]))]))

\* what a call of the executor leaves behind: the queries it awaited and its outcome
Done(qs, resp) == [queries |-> qs, result |-> Ok(resp)]
Fail(qs, err) == [queries |-> qs, result |-> Throw(err)]

offsetResponseRecovering(query, data, page, limit) ==
    Done(<<query>>, [kind |-> "offset", values |-> IF data.ok THEN data.val ELSE <<>>,
                     page |-> IF Truthy(page) THEN page ELSE Num(1),
                     limit |-> limit])
\* the response of executeOffset over the awaited rows
offsetResponse(query, data, page, limit) ==
    IF ~data.ok THEN Fail(<<query>>, data.err)
    ELSE Done(<<query>>, [kind |-> "offset", values |-> data.val,
                          page |-> IF Truthy(page) THEN page ELSE Num(1),
                          limit |-> limit])

\* the predicate of executeOffset: query.where is called only when there are filters
offsetWhere(conds, extraConditions) ==
    IF Len(conds) > 0 THEN And(conds \o extraConditions) ELSE NoPred

\* the query executeOffset builds
offsetQuery(conds, sorting, offset, limit, extraConditions) ==
    [where |-> offsetWhere(conds, extraConditions),
     orderBy |-> orderByColumns(sorting),
     offset |-> IF offset.t = "undefined" THEN None ELSE Some(offset),
     limit |-> limit]

offsetRun(query, page, limit, rows) ==
    offsetResponse(query, Backend(query, rows), page, limit)

offsetWith(q, extraConditions, rows, conds) ==
    IF ~conds.ok THEN Fail(<<>>, conds.err)
    ELSE offsetRun(offsetQuery(conds.val, q.sorting, Get(q, "offset"), q.limit, extraConditions),
                   Get(q, "page"), q.limit, rows)

executeOffset(queryInstructions, extraConditions, rows) ==
    offsetWith(queryInstructions, extraConditions, rows,
               filterConditions(queryInstructions.filters))

\* query.limit(limit + 1)
fetchLimit(limit) == limit + 1

\* results.length > limit
hasMoreAtLimit(results, limit) == Len(results) >= limit
hasMore(results, limit) == Len(results) > limit

\* hasMore ? results.slice(0, limit) : results
pageDataWithExtra(results, limit) == results
pageData(results, limit) ==
    IF hasMore(results, limit) THEN SubSeq(results, 1, limit) ELSE results

\* the response of executeCursor, given the values extracted from the last record
cursorResponse(query, data, cursorValues) ==
    IF ~cursorValues.ok THEN Fail(<<query>>, cursorValues.err)
    ELSE Done(<<query>>, [kind |-> "cursor", values |-> data,
                          cursor |-> encodeCursor(cursorValues.val)])

\* executeCursor after the query was awaited
cursorPage(query, results, limit, sortingWithId) ==
    IF ~results.ok THEN Fail(<<query>>, results.err)
    ELSE IF hasMore(results.val, limit) /\ Len(pageData(results.val, limit)) > 0
    THEN cursorResponse(query, pageData(results.val, limit),
            extractCursorValuesFromRecord(
                pageData(results.val, limit)[Len(pageData(results.val, limit))],
                sortingWithId))
    ELSE Done(<<query>>, [kind |-> "cursor", values |-> pageData(results.val, limit),
                          cursor |-> Null])

cursorRun(query, limit, sortingWithId, rows) ==
    cursorPage(query, Backend(query, rows), limit, sortingWithId)

cursorPredicateWithoutCursor(cursorWhere, conds, extraConditions) ==
    And(conds \o extraConditions)
\* and(cursorWhere, ...filterConditions, ...extraConditions), without cursorWhere when
\* it is undefined
cursorPredicate(cursorWhere, conds, extraConditions) ==
    IF cursorWhere # NoPred THEN And(<<cursorWhere>> \o conds \o extraConditions)
    ELSE And(conds \o extraConditions)

\* the query executeCursor builds
cursorQuery(cursorWhere, conds, sortingWithId, limit, extraConditions) ==
    [where |-> cursorPredicate(cursorWhere, conds, extraConditions),
     orderBy |-> orderByColumns(sortingWithId),
     offset |-> None,
     limit |-> fetchLimit(limit)]

\* if (cursor) cursorWhere = buildCursorWhereClause(sortingWithId, decodeCursor(cursor), id)
cursorWhereOf(cursor, decoded, sortingWithId, cursorIdField) ==
    IF ~Truthy(cursor) THEN Ok(NoPred)
    ELSE IF ~decoded.ok THEN decoded
    ELSE buildCursorWhereClause(sortingWithId, decoded.val, cursorIdField)

cursorWith(q, extraConditions, rows, conds, sortingWithId, cursorWhere) ==
    IF ~conds.ok THEN Fail(<<>>, conds.err)
    ELSE IF ~cursorWhere.ok THEN Fail(<<>>, cursorWhere.err)
    ELSE cursorRun(cursorQuery(cursorWhere.val, conds.val, sortingWithId, q.limit,
                               extraConditions),
                   q.limit, sortingWithId, rows)

cursorSorted(q, cursorIdField, extraConditions, rows, sortingWithId) ==
    cursorWith(q, extraConditions, rows, filterConditions(q.filters), sortingWithId,
               cursorWhereOf(Get(q, "cursor"), decodeCursor(Get(q, "cursor")),
                             sortingWithId, cursorIdField))

executeCursor(queryInstructions, cursorIdField, extraConditions, rows) ==
    cursorSorted(queryInstructions, cursorIdField, extraConditions, rows,
                 ensureIdInSorting(queryInstructions.sorting, cursorIdField))

\* the test that sends execute to executeCursor
runsCursor(paginationType, paginationOptions) ==
    paginationOptions.paginationType = Some("cursor")

execute(queryInstructions, extraConditions, rows) ==
    IF AllowedType(queryInstructions.paginationOptions) = "offset"
       /\ queryInstructions.paginationType = "cursor"
    THEN Fail(<<>>, BadRequest("CursorNotEnabled", <<>>))
    ELSE IF AllowedType(queryInstructions.paginationOptions) = "cursor"
            /\ queryInstructions.paginationType = "offset"
    THEN Fail(<<>>, BadRequest("OffsetNotEnabled", <<>>))
    ELSE IF runsCursor(queryInstructions.paginationType, queryInstructions.paginationOptions)
    THEN IF queryInstructions.paginationOptions.cursorIdField = None
         THEN Fail(<<>>, BadRequest("CursorIdFieldRequired", <<>>))
         ELSE executeCursor(queryInstructions,
                            queryInstructions.paginationOptions.cursorIdField[1],
                            extraConditions, rows)
    ELSE executeOffset(queryInstructions, extraConditions, rows)

-----------------------------------------------------------------------------
(* The DTO class of the model: three decorated properties over a table (id, a, b) *)

\* metadata pushed by a filter decorator built with BuildOperator
FilterMeta(operator, alias, default) ==
    [operator |-> operator, alias |-> alias, default |-> default]

\* metadata defined by @Sortable(options) on a property: the alias, and the sqlProperty,
\* which is the key of that name when the options give none
SortableMeta(alias, name) == [enabled |-> TRUE, alias |-> alias, sqlProperty |-> Key(name)]

Props ==
    << [propertyKey |-> "id", column |-> Col("id"), filters |-> <<>>,
        sortable |-> Some(SortableMeta(<<"i", "d">>, "id"))],
       [propertyKey |-> "a", column |-> Col("a"),
        filters |-> <<FilterMeta("eq", "a", Undef)>>,
        sortable |-> Some(SortableMeta(<<"a">>, "a"))],
       [propertyKey |-> "b", column |-> Col("b"),
        filters |-> <<FilterMeta("gt", "bGt", Undef)>>,
        sortable |-> Some(SortableMeta(<<"b">>, "b"))] >>

\* @Pagination(options)
Options(paginationType, limit, maxLimit, allowCustomLimit) ==
    [paginationType |-> paginationType,
     cursorIdField |-> IF paginationType = Some("offset") THEN None ELSE Some(Col("id")),
     limit |-> limit,
     maxLimit |-> maxLimit,
     allowCustomLimit |-> allowCustomLimit,
     allowCustomSort |-> None,
     allowMultipleSort |-> None,
     defaultSort |-> None]

NoParams ==
    [page |-> Undef, limit |-> Undef, cursor |-> Undef, sortBy |-> Undef,
     sortOrder |-> Undef, a |-> Undef, bGt |-> Undef]

-----------------------------------------------------------------------------
(* Bounds and inputs *)

MaxStrLen == 2

Alphabet == {"0", "1", "2", "-", ".", "a", " "}

\* every string over Alphabet of at most MaxStrLen characters, the empty string included
Strings == UNION {[1..n -> Alphabet] : n \in 0..MaxStrLen}

StringParams == {Undef} \cup {Str(s) : s \in Strings}

JunkCursor == Str(<<"x">>)

-----------------------------------------------------------------------------
(* Actions *)

\* what parse leaves behind: the request it returns, or the exception it throws
Parsed(r) ==
    IF r.ok
    THEN /\ request' = r.val
         /\ error' = NoError
         /\ pc' = "execute"
    ELSE /\ request' = NoRequest
         /\ error' = r.err
         /\ pc' = "done"

\* QueryParserService.parse(dtoClass, queryParams), called by the @PaginatedQuery pipe
Parse ==
    /\ pc = "parse"
    /\ Parsed(parse(dto, params))
    /\ UNCHANGED <<dto, params, extra, db, queries, response, visited, whereArgs, whereResult,
                   filterArgs, filterResult, calls, writes>>

\* what execute leaves behind: the queries it awaited, and its page or its exception;
\* the client keeps the rows it is sent
Executed(r) ==
    /\ queries' = r.queries
    /\ IF r.result.ok
       THEN /\ response' = r.result.val
            /\ error' = NoError
            /\ visited' = visited \o r.result.val.values
       ELSE /\ response' = NoResponse
            /\ error' = r.result.err
            /\ UNCHANGED visited

\* PaginationService.execute(baseQuery, queryInstructions, extraConditions), called by
\* the controller with the result of parse
Execute ==
    /\ pc = "execute"
    /\ Executed(execute(request, extra, db))
    /\ pc' = "done"
    /\ UNCHANGED <<dto, params, extra, db, request, whereArgs, whereResult,
                   filterArgs, filterResult, calls, writes>>

\* the client asks for the next page: the same parameters with the cursor it was sent
Follow ==
    /\ pc = "done"
    /\ response.kind = "cursor"
    /\ response.cursor # Null
    /\ params' = [params EXCEPT !.cursor = response.cursor]
    /\ pc' = "parse"
    /\ request' = NoRequest
    /\ response' = NoResponse
    /\ queries' = <<>>
    /\ UNCHANGED <<dto, extra, db, error, visited, whereArgs, whereResult,
                   filterArgs, filterResult, calls, writes>>

-----------------------------------------------------------------------------
(* Specification of parse alone: every option set against every parameter set *)

\* limit parameters around the default maxLimit, and the longer texts with a numeric prefix
LongLimits ==
    {Str(<<"1", "0", "0">>), Str(<<"1", "0", "1">>), Str(<<"5", "0", "0">>),
     Str(<<"1", ".", "5">>), Str(<<"1", "0", "a", "b", "c">>)}

ParseOptions ==
    {Options(pt, None, ml, acl) :
        pt \in {None, Some("offset"), Some("cursor"), Some("both")},
        ml \in {None, Some(2)},
        acl \in {None, Some(FALSE)}}

ParseParams ==
    {[NoParams EXCEPT !.page = pg, !.limit = lm, !.cursor = cu] :
        pg \in {Undef, Str(<<"2">>)}, lm \in StringParams,
        cu \in {Undef, Str(<<>>), JunkCursor}}
    \cup
    {[NoParams EXCEPT !.page = pg, !.limit = lm, !.cursor = cu] :
        pg \in StringParams, lm \in {Undef, Str(<<"2">>), Str(<<"0">>)},
        cu \in {Undef, JunkCursor}}
    \cup
    {[NoParams EXCEPT !.page = pg, !.limit = lm] :
        pg \in {Undef, Str(<<"2">>)}, lm \in LongLimits}

InitParse ==
    /\ dto \in {[options |-> o, props |-> Props] : o \in ParseOptions}
    /\ params \in ParseParams
    /\ extra = <<>>
    /\ db = {}
    /\ pc = "parse"
    /\ request = NoRequest
    /\ error = NoError
    /\ queries = <<>>
    /\ response = NoResponse
    /\ visited = <<>>
    /\ whereArgs = NoCall
    /\ whereResult = NoCall
    /\ filterArgs = NoCall
    /\ filterResult = NoCall
    /\ calls = <<>>
    /\ writes = NoCall

NextParse == Parse

SpecParse == InitParse /\ [][NextParse]_vars

-----------------------------------------------------------------------------
(* Specification of the request cycle: parse, execute, and the client following the
   cursor it is sent, over every table of at most MaxRows rows *)

MaxRows == 3

RowValues == {0, 1}

Row(i, x, y) == [id |-> Num(i), a |-> Num(x), b |-> Num(y)]

\* every table with ids 1..n, n <= MaxRows, and any values (ties included) in a and b
Tables ==
    UNION {{{Row(i, f[i][1], f[i][2]) : i \in 1..n} : f \in [1..n -> RowValues \X RowValues]} :
              n \in 0..MaxRows}

S_a == <<"a">>
S_ab == <<"a", ",", "b">>
S_id == <<"i", "d">>
S_a_id == <<"a", ",", "i", "d">>
S_desc == <<"d", "e", "s", "c">>
S_asc_desc == <<"a", "s", "c", ",", "d", "e", "s", "c">>
S_desc_desc == <<"d", "e", "s", "c", ",", "D", "E", "S", "C">>

\* sortBy and sortOrder of a traversal: every direction pattern over one and two sort
\* fields, the id alone, and the id after another field
SortChoices ==
    {<<Undef, Undef>>,
     <<Str(S_a), Undef>>, <<Str(S_a), Str(S_desc)>>,
     <<Str(S_ab), Undef>>, <<Str(S_ab), Str(S_desc)>>,
     <<Str(S_ab), Str(S_asc_desc)>>, <<Str(S_ab), Str(S_desc_desc)>>,
     <<Str(S_id), Str(S_desc)>>,
     <<Str(S_a_id), Str(S_asc_desc)>>, <<Str(S_a_id), Str(S_desc)>>}

ExtraCondition == Rel("gt", Col("b"), Num(0))

SomeTables ==
    {{}, {Row(1, 0, 1), Row(2, 0, 1)}, {Row(1, 1, 1), Row(2, 0, 0), Row(3, 0, 1)}}

\* traversals in cursor mode
InitTraverse ==
    /\ dto = [options |-> Options(Some("cursor"), None, None, None), props |-> Props]
    /\ \E sc \in SortChoices, lm \in {Str(<<"1">>), Str(<<"2">>)} :
          params = [NoParams EXCEPT !.sortBy = sc[1], !.sortOrder = sc[2], !.limit = lm]
    /\ extra = <<>>
    /\ db \in Tables

\* page parameters: none, pages one and two, zero, a negative number and a text
PageChoices ==
    {Undef, Str(<<"1">>), Str(<<"2">>), Str(<<"0">>), Str(<<"-", "1">>), Str(<<"a">>)}

\* single requests in every mode, with and without filters and extra conditions
InitModes ==
    /\ \E pt \in {None, Some("offset"), Some("cursor"), Some("both")} :
          dto = [options |-> Options(pt, None, None, None), props |-> Props]
    /\ \E pg \in PageChoices, lm \in {Str(<<"1">>), Str(<<"2">>)},
          fa \in {Undef, Str(<<"0">>)}, sb \in {Undef, Str(S_a)} :
          params = [NoParams EXCEPT !.page = pg, !.limit = lm, !.a = fa, !.sortBy = sb]
    /\ extra \in {<<>>, <<ExtraCondition>>}
    /\ db \in SomeTables

Init ==
    /\ (InitTraverse \/ InitModes)
    /\ pc = "parse"
    /\ request = NoRequest
    /\ error = NoError
    /\ queries = <<>>
    /\ response = NoResponse
    /\ visited = <<>>
    /\ whereArgs = NoCall
    /\ whereResult = NoCall
    /\ filterArgs = NoCall
    /\ filterResult = NoCall
    /\ calls = <<>>
    /\ writes = NoCall

Next == Parse \/ Execute \/ Follow

Spec == Init /\ [][Next]_vars

-----------------------------------------------------------------------------
(* Specification of buildCursorWhereClause alone: every sort list over a and b that
   ends in the id, every cursor row, and every candidate row *)

Orders == {ASC, DESC}

SortOn(name, order) == [propertyKey |-> name, column |-> Col(name), order |-> order]

\* the sort lists: none, one or two of the fields a and b, then the id
SortLists ==
    {<<SortOn("id", o)>> : o \in Orders}
    \cup {<<SortOn(f, o1), SortOn("id", o)>> : f \in {"a", "b"}, o1 \in Orders, o \in Orders}
    \cup {<<SortOn(f[1], o1), SortOn(f[2], o2), SortOn("id", o)>> :
             f \in {<<"a", "b">>, <<"b", "a">>}, o1 \in Orders, o2 \in Orders, o \in Orders}

KeysetValues == {0, 1, 2}

KeysetRows == {Row(i, x, y) : i \in 1..MaxRows, x \in KeysetValues, y \in KeysetValues}

\* the cursor values of a row: its values under the keys of the sort list
ValuesOf(row, sortInstructions) ==
    [k \in {sortInstructions[i].propertyKey : i \in 1..Len(sortInstructions)} |-> row[k]]

InitWhere ==
    /\ dto = [options |-> Options(Some("cursor"), None, None, None), props |-> Props]
    /\ params = NoParams
    /\ extra = <<>>
    /\ db = {}
    /\ pc = "where"
    /\ request = NoRequest
    /\ error = NoError
    /\ queries = <<>>
    /\ response = NoResponse
    /\ visited = <<>>
    /\ \E sl \in SortLists, cur \in KeysetRows, row \in KeysetRows :
          /\ row.id = cur.id => row = cur
          /\ whereArgs = [called |-> TRUE, sortInstructions |-> sl, cursorRow |-> cur,
                          cursorValues |-> ValuesOf(cur, sl), row |-> row]
    /\ whereResult = NoCall
    /\ filterArgs = NoCall
    /\ filterResult = NoCall
    /\ calls = <<>>
    /\ writes = NoCall

\* buildCursorWhereClause(sortInstructions, cursorValues, cursorIdField)
BuildWhere ==
    /\ pc = "where"
    /\ whereResult' = buildCursorWhereClause(whereArgs.sortInstructions,
                                             whereArgs.cursorValues, Col("id"))
    /\ pc' = "done"
    /\ UNCHANGED <<dto, params, extra, db, request, error, queries, response, visited,
                   whereArgs, filterArgs, filterResult, calls, writes>>

NextWhere == BuildWhere

SpecWhere == InitWhere /\ [][NextWhere]_vars

-----------------------------------------------------------------------------
(* Properties of the keyset traversal *)

\* the sort list of a keyset traversal: the request's sort fields, then the id ascending
\* unless the id is one of them
KeysetOrder(sorting) ==
    IF \E i \in 1..Len(sorting) : sorting[i].column = Col("id") THEN sorting
    ELSE sorting \o <<SortOn("id", ASC)>>

\* r1 comes strictly after r2 in the lexicographic order of the sort list: at the first
\* field where they differ, r1 is greater under ASC, smaller under DESC
StrictlyAfter(r1, r2, sortList) ==
    \E i \in 1..Len(sortList) :
        /\ \A j \in 1..(i - 1) : r1[sortList[j].column.name] = r2[sortList[j].column.name]
        /\ IF sortList[i].order = ASC
           THEN r1[sortList[i].column.name].n > r2[sortList[i].column.name].n
           ELSE r1[sortList[i].column.name].n < r2[sortList[i].column.name].n

\* the rows of the set in the order of the sort list: the i-th is the one that comes
\* strictly after exactly i - 1 others
InOrder(rowSet, sortList) ==
    [i \in 1..Cardinality(rowSet) |->
        CHOOSE r \in rowSet :
            Cardinality({q \in rowSet : StrictlyAfter(r, q, sortList)}) = i - 1]

\* a request of a traversal: cursor pagination, no page, no filter, no extra condition
Traversing ==
    /\ dto.options.paginationType = Some("cursor")
    /\ params.page = Undef
    /\ params.a = Undef
    /\ extra = <<>>

\* C1: in a cursor traversal over any table with a unique id and ties on the other
\* fields, under every ASC/DESC combination (limit 1 included), every answered request
\* succeeds, the rows returned so far are exactly the first rows of the table in the order
\* (sort fields..., id), none repeated and none skipped, a page that carries a cursor is
\* not empty, and when the cursor is null every row has been returned
C1_KeysetTotalOrder ==
    (Traversing /\ pc = "done") =>
        /\ error = NoError
        /\ response.kind = "cursor"
        /\ Len(visited) <= Cardinality(db)
        /\ visited = SubSeq(InOrder(db, KeysetOrder(request.sorting)), 1, Len(visited))
        /\ response.cursor # Null => response.values # <<>>
        /\ response.cursor = Null => Len(visited) = Cardinality(db)

\* a traversal with limit 1 has returned all three rows of a table with ties on a and b,
\* in a descending order
C1_Witness ==
    /\ Traversing /\ pc = "done"
    /\ params.limit = Str(<<"1">>)
    /\ Cardinality(db) = 3
    /\ \E r1 \in db, r2 \in db : r1 # r2 /\ r1.a = r2.a /\ r1.b = r2.b
    /\ request.sorting # <<>> /\ request.sorting[1].order = DESC
    /\ response.cursor = Null
    /\ Len(visited) = 3

-----------------------------------------------------------------------------
(* Properties of the executor *)

\* the first n elements of a sequence, all of them when it has fewer
FirstRows(seq, n) == SubSeq(seq, 1, IF n < Len(seq) THEN n ELSE Len(seq))

\* execute answered with a cursor page
CursorPageReturned == pc = "done" /\ response.kind = "cursor"

\* C2: a cursor page for limit L comes from one query that asks the backend for L + 1
\* rows; the page holds the first L rows of what the backend returned, so at most L; and
\* its cursor is non-null exactly when the backend returned more than L rows
C2_OverFetchExact ==
    CursorPageReturned =>
        /\ Len(queries) = 1
        /\ queries[1].limit = request.limit + 1
        /\ response.values = FirstRows(Backend(queries[1], db).val, request.limit)
        /\ Len(response.values) <= request.limit
        /\ response.cursor # Null <=> Len(Backend(queries[1], db).val) > request.limit

\* the backend returned exactly L = 2 rows, and the page has both and no cursor
C2_Witness ==
    /\ CursorPageReturned
    /\ request.limit = 2
    /\ Len(Backend(queries[1], db).val) = 2
    /\ Len(response.values) = 2
    /\ response.cursor = Null

\* C3: execute runs the strategy of the request: a request that parse resolved to cursor
\* pagination is answered with a cursor page, one resolved to offset pagination with an
\* offset page
C3_RunsResolvedStrategy ==
    (pc = "done" /\ request # NoRequest /\ error = NoError) =>
        response.kind = request.paginationType

\* the predicate built by the builder for the cursor of the request
KeysetPredicate ==
    buildCursorWhereClause(ensureIdInSorting(request.sorting, Col("id")),
                           decodeCursor(request.cursor).val, Col("id")).val

\* C4: the predicate of the query handed to the backend is the AND of the keyset predicate
\* (cursor page with a cursor supplied), every filter predicate and every extra condition,
\* also when the request has no filters
C4_CombinedPredicate ==
    (pc = "done" /\ queries # <<>>) =>
        queries[1].where =
            And((IF response.kind = "cursor" /\ Truthy(Get(request, "cursor"))
                 THEN <<KeysetPredicate>> ELSE <<>>)
                \o filterConditions(request.filters).val
                \o extra)

-----------------------------------------------------------------------------
(* Properties of the keyset WHERE builder *)

\* C5: for every sort list ending in the id, in every ASC/DESC combination, and every
\* cursor row, buildCursorWhereClause returns a predicate, and the predicate is true of a
\* row exactly when the row comes strictly after the cursor row in the lexicographic order
\* of the sort list; it is false of the cursor row itself
C5_StrictlyAfterCursor ==
    whereResult # NoCall =>
        /\ whereResult.ok
        /\ Eval(whereResult.val, whereArgs.row)
              <=> StrictlyAfter(whereArgs.row, whereArgs.cursorRow, whereArgs.sortInstructions)
        /\ ~Eval(whereResult.val, whereArgs.cursorRow)

\* a ASC, b DESC, id ASC: a row that ties with the cursor row on a and has a smaller b
\* is admitted
C5_Witness ==
    /\ whereResult # NoCall
    /\ whereArgs.sortInstructions = <<SortOn("a", ASC), SortOn("b", DESC), SortOn("id", ASC)>>
    /\ whereArgs.row.a = whereArgs.cursorRow.a
    /\ whereArgs.row.b.n < whereArgs.cursorRow.b.n
    /\ whereArgs.row.id.n < whereArgs.cursorRow.id.n
    /\ Eval(whereResult.val, whereArgs.row)

-----------------------------------------------------------------------------
(* Properties of the parser *)

\* parse has returned or thrown
ParseReturned == pc # "parse"

\* a parameter is present when the request carries a non-empty value for it; the parser
\* tests every parameter this way, so `?cursor=` is the same as no cursor
Present(v) == Truthy(v)

\* parse threw a user-input error and returned no request
Rejected(code) ==
    /\ request = NoRequest
    /\ error.class = "BadRequestException"
    /\ error.code = code

\* C6: when the configured mode is offset and a cursor parameter is present, and when
\* the configured mode is cursor and a page parameter is present, parse throws a
\* BadRequestException and returns no request
C6_ModeRejection ==
    ParseReturned =>
        /\ (AllowedType(dto.options) = "offset" /\ Present(params.cursor))
              => Rejected("CursorNotEnabled")
        /\ (AllowedType(dto.options) = "cursor" /\ Present(params.page))
              => Rejected("OffsetNotEnabled")

\* a cursor sent to an offset-only endpoint was rejected
C6_Witness ==
    /\ ParseReturned
    /\ dto.options.paginationType = Some("offset")
    /\ params.cursor = JunkCursor
    /\ Rejected("CursorNotEnabled")

\* C7: a request returned by parse has the paging position of its mode and no other: in
\* cursor mode page and offset are undefined, in offset mode page and offset are defined
\* and cursor is undefined; under 'both' a present page selects offset and an absent page
\* selects cursor, and under a single configured mode the request has that mode
C7_OnePagingPosition ==
    (ParseReturned /\ request # NoRequest) =>
        /\ request.paginationType \in {"cursor", "offset"}
        /\ request.paginationType = "cursor" =>
              /\ Get(request, "page") = Undef
              /\ Get(request, "offset") = Undef
              /\ Get(request, "cursor") = params.cursor
        /\ request.paginationType = "offset" =>
              /\ Get(request, "page") # Undef
              /\ Get(request, "offset") # Undef
              /\ Get(request, "cursor") = Undef
        /\ AllowedType(dto.options) = "both" =>
              (request.paginationType = "offset" <=> Present(params.page))
        /\ AllowedType(dto.options) # "both" =>
              request.paginationType = AllowedType(dto.options)

\* mode 'both' with neither page nor cursor resolved to cursor mode with offset undefined
C7_Witness ==
    /\ ParseReturned
    /\ dto.options.paginationType = Some("both")
    /\ params.page = Undef /\ params.cursor = Undef
    /\ request # NoRequest
    /\ request.paginationType = "cursor"
    /\ "offset" \notin DOMAIN request

\* the limit parameter may set the limit
CustomLimit == OrElse(dto.options.allowCustomLimit, TRUE) /\ Present(params.limit)

\* the text denotes a positive integer: decimal digits only (white space around them
\* allowed), with a value greater than zero
PositiveIntegerText(s) ==
    /\ Trim(s) # <<>>
    /\ \A i \in 1..Len(Trim(s)) : Trim(s)[i] \in Digits
    /\ DecVal(Trim(s)) > 0

\* C8: when custom limit is allowed and a limit parameter is present whose value is not
\* a positive integer, parse throws a validation error and returns no request
C8_InvalidLimitRejected ==
    (ParseReturned /\ CustomLimit /\ ~PositiveIntegerText(params.limit.s)) =>
        /\ request = NoRequest
        /\ error.class = "BadRequestException"

\* the maxLimit in force
MaxLimitOf(options) == OrElse(options.maxLimit, DefaultMaxLimit)

\* C9: when custom limit is allowed and the requested limit exceeds maxLimit (100 when
\* not configured), parse returns no request and throws a BadRequestException, which
\* quotes the requested limit and maxLimit unless the mode was rejected first; and every
\* limit taken from the parameter in a returned request is an integer in 1..maxLimit
C9_MaxLimitEnforced ==
    (ParseReturned /\ CustomLimit) =>
        /\ (ParseInt(params.limit) # NaN /\ ParseInt(params.limit).n > MaxLimitOf(dto.options)) =>
              /\ request = NoRequest
              /\ error.class = "BadRequestException"
              /\ error.code \in {"LimitExceedsMax", "CursorNotEnabled", "OffsetNotEnabled"}
              /\ error.code = "LimitExceedsMax" =>
                    error.detail = <<ParseInt(params.limit).n, MaxLimitOf(dto.options)>>
        /\ request # NoRequest => request.limit \in 1..MaxLimitOf(dto.options)

\* limit=500 under the default maxLimit was rejected with an error quoting 100
C9_Witness ==
    /\ ParseReturned
    /\ dto.options.maxLimit = None
    /\ params.limit = Str(<<"5", "0", "0">>)
    /\ Rejected("LimitExceedsMax")
    /\ error.detail = <<500, 100>>

\* C10: a request returned in offset mode has page 1 when the page parameter is absent
\* and parseInt of the parameter otherwise (NaN for a text with no leading digits), and
\* offset = (page - 1) * limit with the limit of the same request
C10_OffsetDerivation ==
    (ParseReturned /\ request # NoRequest /\ request.paginationType = "offset") =>
        /\ request.page = IF Present(params.page) THEN ParseInt(params.page) ELSE Num(1)
        /\ request.offset = IF request.page = NaN THEN NaN
                            ELSE Num((request.page.n - 1) * request.limit)

\* page=2 with limit=2 gave page 2 and offset 2
C10_Witness ==
    /\ ParseReturned
    /\ params.page = Str(<<"2">>) /\ params.limit = Str(<<"2">>)
    /\ request # NoRequest
    /\ request.page = Num(2)
    /\ request.limit = 2
    /\ request.offset = Num(2)

-----------------------------------------------------------------------------
(* Properties of offset pages *)

\* execute ran the offset strategy for a request that parse resolved to offset mode
OffsetRequestRun ==
    pc = "done" /\ request # NoRequest /\ request.paginationType = "offset" /\ queries # <<>>

\* C11: for every page parameter, the offset handed to the backend for an offset
\* request is an integer >= 0, and the offset page returned has page an integer >= 1
\* and limit an integer > 0
C11_OffsetPageBounds ==
    OffsetRequestRun =>
        /\ queries[1].offset # None
        /\ queries[1].offset[1].t = "number"
        /\ queries[1].offset[1].n >= 0
        /\ response # NoResponse =>
              /\ response.page.t = "number"
              /\ response.page.n >= 1
              /\ response.limit > 0

-----------------------------------------------------------------------------
(* Specification of sort resolution: parse over every sortBy and sortOrder made of up to
   MaxSortFields comma-separated pieces (sortOrder: one more), as one string or as
   repeated values, under every setting of the sort options *)

MaxSortFields == 2

\* the properties of the sort DTO: id, a and b sortable, b with a function sqlProperty,
\* and c decorated with @Prop but not sortable
SortProps ==
    << [propertyKey |-> "id", column |-> Col("id"), filters |-> <<>>,
        sortable |-> Some(SortableMeta(<<"i", "d">>, "id"))],
       [propertyKey |-> "a", column |-> Col("a"), filters |-> <<>>,
        sortable |-> Some(SortableMeta(<<"a">>, "a"))],
       [propertyKey |-> "b", column |-> Col("b"), filters |-> <<>>,
        sortable |-> Some([enabled |-> TRUE, alias |-> <<"b">>, sqlProperty |-> Fn("b")])],
       [propertyKey |-> "c", column |-> Col("c"), filters |-> <<>>,
        sortable |-> None] >>

\* pieces of a sortBy: nothing, the aliases a and b, and c, which is no sortable alias
AliasPieces == {<<>>, <<"a">>, <<"b">>, <<"c">>}

\* pieces of a sortOrder: nothing, and the two orders in lower case
OrderPieces == {<<>>, <<"a", "s", "c">>, <<"d", "e", "s", "c">>}

\* sortOrder lists with a word that is no order
BadOrders == {<<<<"u", "p">>>>, <<<<"d", "e", "s", "c">>, <<"u", "p">>>>}

\* pieces.join(',')
RECURSIVE JoinComma(_)
JoinComma(pieces) ==
    IF pieces = <<>> THEN <<>>
    ELSE IF Len(pieces) = 1 THEN pieces[1]
    ELSE pieces[1] \o <<",">> \o JoinComma(Tail(pieces))

\* the lists of at most n pieces
PieceLists(pieces, n) == UNION {[1..k -> pieces] : k \in 0..n}

\* a parameter given once, as a comma-separated string
AsString(pieces) == Str(JoinComma(pieces))

\* a parameter repeated in the query string, as the array of its values
AsArray(pieces) == Arr([i \in 1..Len(pieces) |-> Str(pieces[i])])

\* sortBy and sortOrder: absent, both comma-separated, or both repeated
SortParams ==
    {<<Undef, Undef>>, <<Str(<<" ">>), Undef>>}
    \cup {<<AsString(by), Undef>> : by \in PieceLists(AliasPieces, MaxSortFields)}
    \cup {<<AsString(by), AsString(ord)>> :
             by \in PieceLists(AliasPieces, MaxSortFields),
             ord \in PieceLists(OrderPieces, MaxSortFields + 1)}
    \cup {<<AsString(by), AsString(ord)>> :
             by \in PieceLists(AliasPieces, MaxSortFields), ord \in BadOrders}
    \cup {<<AsArray(by), AsArray(ord)>> :
             by \in PieceLists(AliasPieces, MaxSortFields) \ {<<>>},
             ord \in PieceLists(OrderPieces, MaxSortFields) \ {<<>>}}

\* defaultSort: [{ field: b, order: 'desc' }]
SomeDefaultSort == <<[field |-> Col("b"), order |-> <<"d", "e", "s", "c">>]>>

SortOptions ==
    {[Options(Some("cursor"), None, None, None) EXCEPT
         !.allowCustomSort = acs, !.allowMultipleSort = ams, !.defaultSort = ds] :
        acs \in {None, Some(FALSE)}, ams \in {None, Some(FALSE)},
        ds \in {None, Some(SomeDefaultSort)}}

InitSort ==
    /\ dto \in {[options |-> o, props |-> SortProps] : o \in SortOptions}
    /\ \E sp \in SortParams :
          params = [NoParams EXCEPT !.sortBy = sp[1], !.sortOrder = sp[2]]
    /\ extra = <<>>
    /\ db = {}
    /\ pc = "parse"
    /\ request = NoRequest
    /\ error = NoError
    /\ queries = <<>>
    /\ response = NoResponse
    /\ visited = <<>>
    /\ whereArgs = NoCall
    /\ whereResult = NoCall
    /\ filterArgs = NoCall
    /\ filterResult = NoCall
    /\ calls = <<>>
    /\ writes = NoCall

NextSort == Parse

SpecSort == InitSort /\ [][NextSort]_vars

-----------------------------------------------------------------------------
(* Properties of sort resolution *)

\* the pieces of a comma-separated text, white space around each stripped
Pieces(text) == [i \in 1..Len(Split(text)) |-> Trim(Split(text)[i])]

\* the values of a parameter by position: the pieces of a string, the values of an array
Positions(v) ==
    CASE v.t = "string" -> Pieces(v.s)
      [] v.t = "array" -> [i \in 1..Len(v.items) |-> v.items[i].s]
      [] OTHER -> <<>>

\* the aliases named by sortBy: its positions, the empty pieces of a string left out
AliasList(v) ==
    IF v.t = "string" THEN NonEmptyOnly(Positions(v)) ELSE Positions(v)

\* the request asks for a custom sort and the options allow one
CustomSort == OrElse(dto.options.allowCustomSort, TRUE) /\ Present(params.sortBy)

\* C12: when custom sort is allowed, allowMultipleSort is false and sortBy names more
\* than one alias, parse throws the multiple-sort-fields error with the number of
\* fields received, whatever sortOrder is and whether or not the aliases are valid
C12_MultipleSortRefused ==
    (ParseReturned /\ CustomSort /\ dto.options.allowMultipleSort = Some(FALSE)
        /\ Len(AliasList(params.sortBy)) > 1) =>
        /\ Rejected("MultipleSortFields")
        /\ error.detail[1] = Len(AliasList(params.sortBy))

\* sortBy=a,c with sortOrder=up, an alias that is not sortable and an order that is not
\* one, was refused for its two fields
C12_Witness ==
    /\ ParseReturned
    /\ dto.options.allowMultipleSort = Some(FALSE)
    /\ params.sortBy = AsString(<<<<"a">>, <<"c">>>>)
    /\ params.sortOrder = AsString(<<<<"u", "p">>>>)
    /\ Rejected("MultipleSortFields")
    /\ error.detail[1] = 2

\* the aliases under which a property of the DTO is registered as sortable
SortableAliases ==
    {dto.props[k].sortable[1].alias : k \in {j \in 1..Len(dto.props) : IsSortable(dto.props[j])}}

\* the property registered as sortable under the alias
SortableField(alias) ==
    CHOOSE p \in {dto.props[k] : k \in 1..Len(dto.props)} :
        IsSortable(p) /\ p.sortable[1].alias = alias

\* the aliases of sortBy in order
Asked == AliasList(params.sortBy)

\* C13: when custom sort is used, a sortBy with an alias that is not registered as
\* sortable makes parse throw, and the invalid-sort-field error lists the valid aliases;
\* a returned request has one sort instruction per alias of sortBy, in the same order,
\* each with the property and column of the field registered under that alias
C13_SortResolved ==
    (ParseReturned /\ CustomSort) =>
        /\ (\E i \in 1..Len(Asked) : Asked[i] \notin SortableAliases) =>
              /\ request = NoRequest
              /\ error.class = "BadRequestException"
              /\ error.code = "InvalidSortField" =>
                    {error.detail[2][k] : k \in 1..Len(error.detail[2])} = SortableAliases
        /\ request # NoRequest =>
              /\ Len(request.sorting) = Len(Asked)
              /\ \A i \in 1..Len(Asked) :
                    /\ request.sorting[i].propertyKey = SortableField(Asked[i]).propertyKey
                    /\ request.sorting[i].column = SortableField(Asked[i]).column

\* the order asked for the i-th alias: the i-th value of sortOrder in upper case, ASC
\* when sortOrder has no i-th value or an empty one
OrderAsked(i) ==
    IF i <= Len(Positions(params.sortOrder)) /\ Positions(params.sortOrder)[i] # <<>>
    THEN ToUpperCase(Positions(params.sortOrder)[i])
    ELSE ASC

\* C14: sortOrder is paired with sortBy by position: in a returned request the
\* instruction of the i-th alias has the i-th sortOrder token in upper case, and ASC when
\* that position is empty or missing, for comma-separated strings and for repeated values
C14_PositionalOrder ==
    (ParseReturned /\ CustomSort /\ request # NoRequest /\ Len(Asked) > 0) =>
        \A i \in 1..Len(request.sorting) : request.sorting[i].order = OrderAsked(i)

\* the options configure a default sort
HasDefaultSort == getDefaultSorting(dto.options) # <<>>

\* C15: when sortBy is present and custom sort is allowed, parse throws or returns
\* instructions derived from sortBy: it never returns the instructions of defaultSort,
\* also not for a sortBy without any alias such as ','
C15_NoDefaultSubstitution ==
    (ParseReturned /\ CustomSort /\ HasDefaultSort /\ request # NoRequest) =>
        /\ request.sorting # getDefaultSorting(dto.options)
        /\ \A i \in 1..Len(request.sorting) : request.sorting[i].propertyKey # ""

\* C18 (parse): each sort instruction of a returned request carries the sqlProperty of
\* the sortable field it was resolved from
C18_ExtractorCarried ==
    (ParseReturned /\ CustomSort /\ request # NoRequest /\ Len(Asked) > 0) =>
        \A i \in 1..Len(request.sorting) :
            Get(request.sorting[i], "sqlProperty") = SortableField(Asked[i]).sortable[1].sqlProperty

-----------------------------------------------------------------------------
(* Specification of filters: a DTO with several filter decorators on one property, a
   default value, and the operators that need a payload; parse, then execute *)

\* metadata pushed by @SwitchFilter(options) for options with a non-empty conditions object
SwitchFilter(alias, default, conditions) ==
    [operator |-> "switch", alias |-> alias, default |-> default, conditions |-> conditions]

\* metadata pushed by @CustomFilter(options) for options with a builder
CustomFilter(alias, default, builder) ==
    [operator |-> "custom", alias |-> alias, default |-> default, builder |-> builder]

\* metadata pushed by @ManyToManyFilter(options) for options with a builder and a table
ManyToManyFilter(alias, default, builder, table) ==
    [operator |-> "exists", alias |-> alias, default |-> default, builder |-> builder,
     table |-> table]

\* a conditions object: its keys in insertion order, each mapped to a function
Conditions(keys) == [t |-> "object", keys |-> keys]

KindConditions == Conditions(<< <<"p">>, <<"n">>, <<"z">> >>)
TagsTable == [t |-> "table", name |-> "tags"]

FilterProps ==
    << [propertyKey |-> "id", column |-> Col("id"), filters |-> <<>>,
        sortable |-> Some(SortableMeta(<<"i", "d">>, "id"))],
       [propertyKey |-> "a", column |-> Col("a"),
        filters |-> <<FilterMeta("eq", "a", Undef)>>,
        sortable |-> None],
       [propertyKey |-> "b", column |-> Col("b"),
        filters |-> <<FilterMeta("gt", "bGt", Undef), FilterMeta("lte", "bLte", Str(<<"1">>))>>,
        sortable |-> None],
       [propertyKey |-> "kind", column |-> Col("a"),
        filters |-> <<SwitchFilter("kind", Undef, KindConditions)>>,
        sortable |-> None],
       [propertyKey |-> "tag", column |-> Col("id"),
        filters |-> <<ManyToManyFilter("tag", Undef, Fn("owns"), TagsTable)>>,
        sortable |-> None],
       [propertyKey |-> "q", column |-> Col("b"),
        filters |-> <<CustomFilter("q", Undef, Fn("search"))>>,
        sortable |-> None] >>

NoFilterParams ==
    [page |-> Undef, limit |-> Undef, cursor |-> Undef, sortBy |-> Undef,
     sortOrder |-> Undef, a |-> Undef, bGt |-> Undef, bLte |-> Undef, kind |-> Undef,
     tag |-> Undef, q |-> Undef]

\* values of a filter parameter: absent, empty, and a number
FilterValues == {Undef, Str(<<>>), Str(<<"0">>)}

FilterParams ==
    {[NoFilterParams EXCEPT !.page = pg, !.a = fa, !.bGt = fg, !.bLte = fl, !.kind = fk,
                            !.tag = ft, !.q = fq] :
        pg \in {Undef, Str(<<"1">>)}, fa \in {Undef, Str(<<"0">>)},
        fg \in FilterValues, fl \in FilterValues,
        fk \in {Undef, Str(<<"p">>), Str(<<"x">>)},
        ft \in {Undef, Str(<<"1">>)}, fq \in {Undef, Str(<<"1">>)}}

InitFilter ==
    /\ \E pt \in {None, Some("offset"), Some("cursor")} :
          dto = [options |-> Options(pt, None, None, None), props |-> FilterProps]
    /\ params \in FilterParams
    /\ extra \in {<<>>, <<ExtraCondition>>}
    /\ db \in SomeTables
    /\ pc = "parse"
    /\ request = NoRequest
    /\ error = NoError
    /\ queries = <<>>
    /\ response = NoResponse
    /\ visited = <<>>
    /\ whereArgs = NoCall
    /\ whereResult = NoCall
    /\ filterArgs = NoCall
    /\ filterResult = NoCall
    /\ calls = <<>>
    /\ writes = NoCall

NextFilter == Parse \/ Execute

SpecFilter == InitFilter /\ [][NextFilter]_vars

-----------------------------------------------------------------------------
(* Properties of filters *)

\* the filter descriptors of the DTO: property k, decorator m
Descriptors ==
    UNION {{<<k, m>> : m \in 1..Len(dto.props[k].filters)} : k \in 1..Len(dto.props)}

FieldOf(d) == dto.props[d[1]]
MetaOf(d) == dto.props[d[1]].filters[d[2]]

\* the value of a descriptor: the parameter under its alias, its default when the
\* parameter is absent
Resolved(d) ==
    IF Get(params, MetaOf(d).alias) # Undef THEN Get(params, MetaOf(d).alias)
    ELSE MetaOf(d).default

\* the value is present and not empty
Matched(d) == Resolved(d) \notin {Undef, Null, Str(<<>>)}

\* the instructions of the request resolved from the descriptor
InstructionsOf(d) ==
    {i \in 1..Len(request.filters) :
        /\ request.filters[i].propertyKey = FieldOf(d).propertyKey
        /\ request.filters[i].column = FieldOf(d).column
        /\ request.filters[i].operator = MetaOf(d).operator
        /\ request.filters[i].value = Resolved(d)}

\* the descriptors with a comparison operator
Comparisons == {d \in Descriptors : MetaOf(d).operator \in {"eq", "gt", "lte"}}

\* C16: a returned request has exactly one filter instruction for each descriptor whose
\* value (the parameter, or the default when the parameter is absent) is present and not
\* empty, and none for the others, each descriptor of a property on its own; the query
\* execute issues has the comparison of every matched descriptor among the conditions
\* of its AND, and every row returned satisfies all of them
C16_FilterResolution ==
    /\ (ParseReturned /\ request # NoRequest) =>
          /\ \A d \in Descriptors :
                Cardinality(InstructionsOf(d)) = (IF Matched(d) THEN 1 ELSE 0)
          /\ Len(request.filters) = Cardinality({d \in Descriptors : Matched(d)})
    /\ (pc = "done" /\ queries # <<>>) =>
          \A d \in Comparisons :
              Matched(d) =>
                 /\ queries[1].where.op = "and"
                 /\ \E i \in 1..Len(queries[1].where.args) :
                       queries[1].where.args[i] =
                           Rel(MetaOf(d).operator, FieldOf(d).column, Resolved(d))
                 /\ \A j \in 1..Len(visited) :
                       Compare(MetaOf(d).operator, visited[j][FieldOf(d).column.name].n,
                               DecVal(Resolved(d).s))

\* bGt=0 without bLte: the two descriptors of b both matched, the second by its default,
\* and the page returned has a row
C16_Witness ==
    /\ pc = "done"
    /\ request # NoRequest
    /\ params.bGt = Str(<<"0">>)
    /\ params.bLte = Undef
    /\ params.kind = Undef /\ params.tag = Undef /\ params.q = Undef
    /\ Len(request.filters) = 2
    /\ request.filters[1].operator = "gt"
    /\ request.filters[2].operator = "lte"
    /\ request.filters[2].value = Str(<<"1">>)
    /\ queries # <<>>
    /\ visited # <<>>

\* the descriptor an instruction was resolved from
DescriptorOf(f) ==
    CHOOSE d \in Descriptors :
        FieldOf(d).propertyKey = f.propertyKey /\ MetaOf(d).operator = f.operator

MissingPayload ==
    {"ExistsBuilderRequired", "ExistsTableRequired", "SwitchConditionsRequired",
     "CustomBuilderRequired"}

\* C17: an instruction resolved from an exists, switch or custom descriptor carries the
\* builder, table and conditions of the descriptor, and executing a returned request
\* never throws a missing-builder, missing-table or missing-conditions error
C17_PayloadCarried ==
    /\ (ParseReturned /\ request # NoRequest) =>
          \A i \in 1..Len(request.filters) :
              /\ Get(request.filters[i], "builder") = Get(MetaOf(DescriptorOf(request.filters[i])), "builder")
              /\ Get(request.filters[i], "table") = Get(MetaOf(DescriptorOf(request.filters[i])), "table")
              /\ Get(request.filters[i], "conditions") = Get(MetaOf(DescriptorOf(request.filters[i])), "conditions")
    /\ (pc = "done" /\ request # NoRequest /\ error # NoError) =>
          error.code \notin MissingPayload

-----------------------------------------------------------------------------
(* Specification of applyFilterOperator alone: every operator against every value and
   every payload, present or missing *)

FilterOperators ==
    {"eq", "neq", "gt", "lt", "gte", "lte", "like", "exists", "switch", "custom", "between"}

InitOperator ==
    /\ dto = [options |-> Options(None, None, None, None), props |-> FilterProps]
    /\ params = NoFilterParams
    /\ extra = <<>>
    /\ db = {}
    /\ pc = "filter"
    /\ request = NoRequest
    /\ error = NoError
    /\ queries = <<>>
    /\ response = NoResponse
    /\ visited = <<>>
    /\ whereArgs = NoCall
    /\ whereResult = NoCall
    /\ \E op \in FilterOperators, v \in {Str(<<"p">>), Str(<<"z">>), Str(<<"x">>), Str(<<"0">>)},
          bl \in {Undef, Fn("search")}, tb \in {Undef, TagsTable},
          cs \in {Undef, Conditions(<<>>), KindConditions} :
          filterArgs = [called |-> TRUE, column |-> Col("a"), operator |-> op, value |-> v,
                        builder |-> bl, table |-> tb, conditions |-> cs]
    /\ filterResult = NoCall
    /\ calls = <<>>
    /\ writes = NoCall

\* applyFilterOperator(column, operator, value, builder, table, conditions)
ApplyFilter ==
    /\ pc = "filter"
    /\ filterResult' = applyFilterOperator(filterArgs.column, filterArgs.operator,
                                           filterArgs.value, filterArgs.builder,
                                           filterArgs.table, filterArgs.conditions)
    /\ pc' = "done"
    /\ UNCHANGED <<dto, params, extra, db, request, error, queries, response, visited,
                   whereArgs, whereResult, filterArgs, calls, writes>>

NextOperator == ApplyFilter

SpecOperator == InitOperator /\ [][NextOperator]_vars

\* the call threw the error of that code
FilterThrew(code) ==
    filterResult # NoCall /\ ~filterResult.ok /\ filterResult.err.code = code

\* C19: a switch filter whose value is not a key of its conditions throws a
\* BadRequestException that lists the keys of the conditions, and its class is not the
\* class of the error thrown when the builder, table or conditions are missing
C19_SwitchValueIsUserError ==
    /\ (filterResult # NoCall /\ filterArgs.operator = "switch"
            /\ filterArgs.conditions = KindConditions /\ filterArgs.value = Str(<<"x">>)) =>
          FilterThrew("InvalidSwitchValue")
    /\ FilterThrew("InvalidSwitchValue") =>
          /\ filterResult.err.detail[2] = filterArgs.conditions.keys
          /\ filterResult.err.class = "BadRequestException"
          /\ filterResult.err.class #
                applyFilterOperator(filterArgs.column, "switch", filterArgs.value,
                                    Undef, Undef, Undef).err.class

-----------------------------------------------------------------------------
(* Specification of the configuration: every mode with and without cursorIdField;
   parse, then execute *)

ConfigOptions ==
    {[Options(pt, None, None, None) EXCEPT !.cursorIdField = cf] :
        pt \in {None, Some("offset"), Some("cursor"), Some("both")},
        cf \in {None, Some(Col("id"))}}

InitConfig ==
    /\ dto \in {[options |-> o, props |-> Props] : o \in ConfigOptions}
    /\ \E pg \in {Undef, Str(<<"1">>), Str(<<"2">>)}, lm \in {Undef, Str(<<"1">>)},
          fa \in {Undef, Str(<<"0">>)}, sb \in {Undef, Str(S_a)} :
          params = [NoParams EXCEPT !.page = pg, !.limit = lm, !.a = fa, !.sortBy = sb]
    /\ extra \in {<<>>, <<ExtraCondition>>}
    /\ db \in SomeTables
    /\ pc = "parse"
    /\ request = NoRequest
    /\ error = NoError
    /\ queries = <<>>
    /\ response = NoResponse
    /\ visited = <<>>
    /\ whereArgs = NoCall
    /\ whereResult = NoCall
    /\ filterArgs = NoCall
    /\ filterResult = NoCall
    /\ calls = <<>>
    /\ writes = NoCall

NextConfig == Parse \/ Execute

SpecConfig == InitConfig /\ [][NextConfig]_vars

\* execute ran, under a mode that permits cursor pagination, without cursorIdField
ExecutedWithoutIdField ==
    /\ pc = "done"
    /\ request # NoRequest
    /\ AllowedType(dto.options) \in {"cursor", "both"}
    /\ dto.options.cursorIdField = None

\* C20: when the configured mode permits cursor pagination and cursorIdField is missing,
\* execute throws an error that is not a BadRequestException, and awaits no query
C20_MissingIdFieldIsConfigError ==
    ExecutedWithoutIdField =>
        /\ error # NoError
        /\ error.class # "BadRequestException"
        /\ queries = <<>>

-----------------------------------------------------------------------------
(* Specification of buildCursorWhereClause on cursors of another shape: every sort list
   against the cursors that hold the values of only some of its fields *)

\* the mapping with only the given keys
Restrict(values, keys) == [k \in keys |-> values[k]]

\* the cursors decoded from tokens of a sort configuration with fewer fields
PartialCursors(row, sortInstructions) ==
    {Restrict(ValuesOf(row, sortInstructions), K) :
        K \in SUBSET DOMAIN ValuesOf(row, sortInstructions)}

CursorRows == {Row(1, 0, 1), Row(2, 1, 0), Row(3, 2, 2)}

InitShape ==
    /\ dto = [options |-> Options(Some("cursor"), None, None, None), props |-> Props]
    /\ params = NoParams
    /\ extra = <<>>
    /\ db = {}
    /\ pc = "where"
    /\ request = NoRequest
    /\ error = NoError
    /\ queries = <<>>
    /\ response = NoResponse
    /\ visited = <<>>
    /\ \E sl \in SortLists, cur \in CursorRows :
          \E cv \in PartialCursors(cur, sl) :
              whereArgs = [called |-> TRUE, sortInstructions |-> sl, cursorRow |-> cur,
                           cursorValues |-> cv, row |-> cur]
    /\ whereResult = NoCall
    /\ filterArgs = NoCall
    /\ filterResult = NoCall
    /\ calls = <<>>
    /\ writes = NoCall

NextShape == BuildWhere

SpecShape == InitShape /\ [][NextShape]_vars

\* the keys of the sort list that have no value in the cursor
MissingKeys ==
    {whereArgs.sortInstructions[i].propertyKey : i \in 1..Len(whereArgs.sortInstructions)}
        \ DOMAIN whereArgs.cursorValues

\* C21: when the decoded cursor has no value for a field of the sort list, the id field
\* included, buildCursorWhereClause throws a missing-field error that names such a field;
\* it returns a predicate exactly when every field of the sort list has a value
C21_MissingCursorField ==
    whereResult # NoCall =>
        /\ MissingKeys # {} =>
              /\ ~whereResult.ok
              /\ whereResult.err.code \in {"CursorMissingId", "CursorMissingValue"}
              /\ whereResult.err.detail[1] \in MissingKeys
        /\ MissingKeys = {} => (whereResult.ok /\ whereResult.val # NoPred)

\* a cursor of the sort list (a, id) used with the sort list (a, b, id): the error names b
C21_Witness ==
    /\ whereResult # NoCall
    /\ Len(whereArgs.sortInstructions) = 3
    /\ whereArgs.sortInstructions[2].propertyKey = "b"
    /\ DOMAIN whereArgs.cursorValues = {"a", "id"}
    /\ ~whereResult.ok
    /\ whereResult.err.detail = <<"b">>

-----------------------------------------------------------------------------
(* Properties of the sort list of cursor pagination *)

\* C22: a cursor page is ordered by the request's sort list, with an ascending id
\* instruction appended as its last element when no instruction is on the id column and
\* unchanged otherwise; the keyset predicate of a request with a cursor is built over the
\* same list; and the request still has the sorting that parse returned
C22_IdInSortList ==
    (CursorPageReturned /\ queries # <<>>) =>
        /\ queries[1].orderBy = orderByColumns(KeysetOrder(request.sorting))
        /\ Truthy(request.cursor) =>
              queries[1].where.args[1] =
                  buildCursorWhereClause(KeysetOrder(request.sorting),
                                         decodeCursor(request.cursor).val, Col("id")).val
        /\ request.sorting = parse(dto, params).val.sorting

\* sorted by a descending: the second page was fetched by a and then the id ascending
C22_Witness ==
    /\ CursorPageReturned
    /\ Truthy(request.cursor)
    /\ Len(request.sorting) = 1
    /\ request.sorting[1].order = DESC
    /\ queries[1].orderBy = <<[dir |-> "desc", col |-> Col("a")], [dir |-> "asc", col |-> Col("id")]>>

-----------------------------------------------------------------------------
(* Specification of one execution: every mode with and without cursorIdField, requests
   that fail before the query, and requests whose query the backend rejects *)

\* cursors: none, one that does not decode, one of this sort configuration, and one of a
\* configuration without the id
CursorChoices ==
    {Undef, JunkCursor, Token([id |-> Num(1)]), Token([a |-> Num(0)])}

InitOnce ==
    /\ dto \in {[options |-> o, props |-> FilterProps] : o \in ConfigOptions}
    /\ \E pg \in {Undef, Str(<<"1">>), Str(<<"0">>)}, cu \in CursorChoices,
          fa \in {Undef, Str(<<"0">>), Str(<<"x">>)}, fk \in {Undef, Str(<<"p">>)} :
          params = [NoFilterParams EXCEPT !.page = pg, !.cursor = cu, !.a = fa, !.kind = fk]
    /\ extra \in {<<>>, <<ExtraCondition>>}
    /\ db \in SomeTables
    /\ pc = "parse"
    /\ request = NoRequest
    /\ error = NoError
    /\ queries = <<>>
    /\ response = NoResponse
    /\ visited = <<>>
    /\ whereArgs = NoCall
    /\ whereResult = NoCall
    /\ filterArgs = NoCall
    /\ filterResult = NoCall
    /\ calls = <<>>
    /\ writes = NoCall

NextOnce == Parse \/ Execute

SpecOnce == InitOnce /\ [][NextOnce]_vars

\* the errors execute raises before it awaits the query: mode mismatch, missing id field,
\* cursor that does not decode, cursor without a field, filter payload
BeforeQuery ==
    {"CursorNotEnabled", "OffsetNotEnabled", "CursorIdFieldRequired", "InvalidCursor",
     "CursorMissingId", "CursorMissingValue", "InvalidSwitchValue", "UnsupportedOperator"}
        \cup MissingPayload

\* execute was called and came back
ExecuteReturned == pc = "done" /\ request # NoRequest

\* C23: a call of execute awaits at most one query: none when it throws one of the errors
\* raised before the query, exactly one otherwise; and when the backend rejects the query
\* execute throws the backend's error itself, having awaited that one query
C23_OneQuery ==
    ExecuteReturned =>
        /\ Len(queries) <= 1
        /\ (error # NoError /\ error.code \in BeforeQuery) => queries = <<>>
        /\ (error = NoError \/ error.code \notin BeforeQuery) => Len(queries) = 1
        /\ (queries # <<>> /\ ~Backend(queries[1], db).ok) =>
              (error = Backend(queries[1], db).err /\ response = NoResponse)

\* a cursor request with the filter a=x: the backend rejected the one query, and execute
\* threw its error
C23_Witness ==
    /\ ExecuteReturned
    /\ request.paginationType = "cursor"
    /\ dto.options.paginationType = Some("cursor")
    /\ params.a = Str(<<"x">>)
    /\ Len(queries) = 1
    /\ error.class = "QueryError"

-----------------------------------------------------------------------------
(* Specification of concurrent calls: two requests against one DTO class and one table,
   each parsed and executed by its own call, interleaved at every step and around the
   await of the query *)

CallIds == {1, 2}

\* a call that has not started: its parameters, and locals that are not set yet
NewCall(queryParams) ==
    [params |-> queryParams, pc |-> "parse", request |-> NoRequest, error |-> NoError,
     pending |-> <<>>, outcome |-> NoCall, overlap |-> {}]

\* the locals of an invocation belong to that invocation: no other call's are written
StoreOfShared(cs, c, call) == [d \in DOMAIN cs |-> call]
StoreOf(cs, c, call) == [cs EXCEPT ![c] = call]

\* the call after parse returned or threw
afterParse(call, r) ==
    IF r.ok THEN [call EXCEPT !.request = r.val, !.pc = "execute"]
    ELSE [call EXCEPT !.error = r.err, !.pc = "done"]

\* the query execute has built when it reaches its await, <<>> when it throws before;
\* the rows of the table play no part before the await
awaitedQuery(queryInstructions, extraConditions) ==
    execute(queryInstructions, extraConditions, {}).queries

\* the call suspended at the await of its query, or finished by an exception before it
afterStart(call, qs, extraConditions) ==
    IF qs = <<>>
    THEN [call EXCEPT !.outcome = execute(call.request, extraConditions, {}), !.pc = "done"]
    ELSE [call EXCEPT !.pending = qs, !.pc = "await"]

\* execute from its await on: the backend answers the query, the page is assembled from
\* the locals of the call
resume(q, query, rows) ==
    IF runsCursor(q.paginationType, q.paginationOptions)
    THEN cursorRun(query, q.limit,
                   ensureIdInSorting(q.sorting, q.paginationOptions.cursorIdField[1]), rows)
    ELSE offsetRun(query, Get(q, "page"), q.limit, rows)

CallParams ==
    {[NoParams EXCEPT !.page = pg, !.limit = lm, !.a = fa] :
        pg \in {Undef, Str(<<"1">>), Str(<<"2">>)}, lm \in {Undef, Str(<<"1">>)},
        fa \in {Undef, Str(<<"0">>)}}

InitCalls ==
    /\ \E pt \in {None, Some("offset"), Some("cursor")} :
          dto = [options |-> Options(pt, None, None, None), props |-> Props]
    /\ params = NoParams
    /\ extra = <<>>
    /\ db \in SomeTables \ {{}}
    /\ pc = "calls"
    /\ request = NoRequest
    /\ error = NoError
    /\ queries = <<>>
    /\ response = NoResponse
    /\ visited = <<>>
    /\ whereArgs = NoCall
    /\ whereResult = NoCall
    /\ filterArgs = NoCall
    /\ filterResult = NoCall
    /\ calls \in {<<NewCall(p1), NewCall(p2)>> : p1 \in CallParams, p2 \in CallParams}
    /\ writes = NoCall

\* QueryParserService.parse, called for one request
ParseCall(c) ==
    /\ calls[c].pc = "parse"
    /\ calls' = StoreOf(calls, c, afterParse(calls[c], parse(dto, calls[c].params)))
    /\ UNCHANGED <<dto, params, extra, db, pc, request, error, queries, response, visited,
                   whereArgs, whereResult, filterArgs, filterResult, writes>>

\* PaginationService.execute for one request, up to its await
StartCall(c) ==
    /\ calls[c].pc = "execute"
    /\ calls' = StoreOf(calls, c,
                        afterStart(calls[c], awaitedQuery(calls[c].request, extra), extra))
    /\ UNCHANGED <<dto, params, extra, db, pc, request, error, queries, response, visited,
                   whereArgs, whereResult, filterArgs, filterResult, writes>>

\* PaginationService.execute for one request, from its await on
ResumeCall(c) ==
    /\ calls[c].pc = "await"
    /\ calls' = StoreOf(calls, c,
                        [calls[c] EXCEPT
                            !.outcome = resume(calls[c].request, calls[c].pending[1], db),
                            !.overlap = {d \in CallIds \ {c} : calls[d].pc = "await"},
                            !.pc = "done"])
    /\ UNCHANGED <<dto, params, extra, db, pc, request, error, queries, response, visited,
                   whereArgs, whereResult, filterArgs, filterResult, writes>>

NextCalls == \E c \in CallIds : ParseCall(c) \/ StartCall(c) \/ ResumeCall(c)

SpecCalls == InitCalls /\ [][NextCalls]_vars

\* what the call returns when it runs alone on the same table
Alone(c) == execute(parse(dto, calls[c].params).val, extra, db)

\* every finished call has the outcome of running alone
SameAsAlone ==
    \A c \in CallIds :
        calls[c].pc = "done" =>
            IF parse(dto, calls[c].params).ok
            THEN calls[c].error = NoError /\ calls[c].outcome = Alone(c)
            ELSE calls[c].error = parse(dto, calls[c].params).err /\ calls[c].outcome = NoCall

\* a step leaves alone the DTO class, the table, every call's parameters, every request
\* once it is returned, and every call but the one that takes the step
Untouched ==
    /\ dto' = dto
    /\ db' = db
    /\ \A c \in CallIds :
          /\ calls'[c].params = calls[c].params
          /\ calls[c].request # NoRequest => calls'[c].request = calls[c].request
          /\ calls'[c] # calls[c] => \A d \in CallIds \ {c} : calls'[d] = calls[d]

\* C25: under every interleaving of two calls, around the await of the query included,
\* each call returns what it returns when run alone on the same table, and no step of a
\* call changes the DTO class and its options, the parameters, or the other call's request
C25_CallsIndependent == [](SameAsAlone) /\ [][Untouched]_vars

\* call 1 resumed while call 2 was suspended at its await, and the two calls returned
\* different pages
C25_Witness ==
    /\ calls # <<>>
    /\ calls[1].pc = "done" /\ calls[2].pc = "done"
    /\ calls[1].overlap = {2}
    /\ calls[1].outcome # NoCall /\ calls[2].outcome # NoCall
    /\ calls[1].outcome.result.ok /\ calls[2].outcome.result.ok
    /\ calls[1].outcome.result.val # calls[2].outcome.result.val

-----------------------------------------------------------------------------
(* Specification of a traversal under concurrent writes: between two fetches other
   clients insert rows with new ids and delete rows *)

MaxWrites == 2

\* the rows of the first table that were never deleted, the id of the next row
\* inserted, and the number of writes so far
NoWrites(rows) == [kept |-> rows, nextId |-> Cardinality(rows) + 1, count |-> 0]

InitWrites ==
    /\ dto = [options |-> Options(Some("cursor"), None, None, None), props |-> Props]
    /\ \E sc \in {<<Undef, Undef>>, <<Str(S_a), Undef>>, <<Str(S_a), Str(S_desc)>>,
                  <<Str(S_ab), Str(S_asc_desc)>>},
          lm \in {Str(<<"1">>), Str(<<"2">>)} :
          params = [NoParams EXCEPT !.sortBy = sc[1], !.sortOrder = sc[2], !.limit = lm]
    /\ extra = <<>>
    /\ db \in SomeTables \ {{}}
    /\ pc = "parse"
    /\ request = NoRequest
    /\ error = NoError
    /\ queries = <<>>
    /\ response = NoResponse
    /\ visited = <<>>
    /\ whereArgs = NoCall
    /\ whereResult = NoCall
    /\ filterArgs = NoCall
    /\ filterResult = NoCall
    /\ calls = <<>>
    /\ writes = NoWrites(db)

\* the traversal is between two fetches
BetweenFetches == pc = "done" /\ response.kind = "cursor" /\ response.cursor # Null

\* another client inserts a row; the table gives it a new id
InsertRow ==
    /\ BetweenFetches
    /\ writes.count < MaxWrites
    /\ \E x \in RowValues, y \in RowValues : db' = db \cup {Row(writes.nextId, x, y)}
    /\ writes' = [writes EXCEPT !.nextId = @ + 1, !.count = @ + 1]
    /\ UNCHANGED <<dto, params, extra, pc, request, error, queries, response, visited,
                   whereArgs, whereResult, filterArgs, filterResult, calls>>

\* another client deletes a row
DeleteRow ==
    /\ BetweenFetches
    /\ writes.count < MaxWrites
    /\ \E r \in db :
          /\ db' = db \ {r}
          /\ writes' = [writes EXCEPT !.kept = @ \ {r}, !.count = @ + 1]
    /\ UNCHANGED <<dto, params, extra, pc, request, error, queries, response, visited,
                   whereArgs, whereResult, filterArgs, filterResult, calls>>

NextWrites == Parse \/ Execute \/ Follow \/ InsertRow \/ DeleteRow

SpecWrites == InitWrites /\ [][NextWrites]_vars

\* the positions at which the row was returned
ReturnedAt(r) == {i \in 1..Len(visited) : visited[i] = r}

\* C26: in a cursor traversal with rows inserted and deleted between the fetches, every
\* fetch succeeds, no row is returned twice, and when the traversal ends every row that
\* was in the table from the first fetch to the last has been returned exactly once
C26_StableUnderWrites ==
    (writes # NoCall /\ pc = "done") =>
        /\ error = NoError
        /\ \A i \in 1..Len(visited), j \in 1..Len(visited) :
              visited[i].id = visited[j].id => i = j
        /\ response.cursor = Null =>
              \A r \in writes.kept : Cardinality(ReturnedAt(r)) = 1

\* a traversal ended after a row was inserted and a row was deleted between its fetches,
\* and a row that stayed was returned on a later page
C26_Witness ==
    /\ writes # NoCall /\ pc = "done"
    /\ response.cursor = Null
    /\ writes.count = 2
    /\ writes.nextId = Cardinality(writes.kept) + 3
    /\ Cardinality(writes.kept) = 2
    /\ \E r \in writes.kept : ReturnedAt(r) # {} /\ ReturnedAt(r) # {1}

-----------------------------------------------------------------------------
(* Specification of the cursor keys: a DTO class whose id column is decorated under
   another property name, traversed under every sort list it allows *)

\* the id column under the property ident (sorted by as k), and the columns a and b
KeyProps ==
    << [propertyKey |-> "ident", column |-> Col("id"), filters |-> <<>>,
        sortable |-> Some(SortableMeta(<<"k">>, "ident"))],
       [propertyKey |-> "a", column |-> Col("a"), filters |-> <<>>,
        sortable |-> Some(SortableMeta(<<"a">>, "a"))],
       [propertyKey |-> "b", column |-> Col("b"), filters |-> <<>>,
        sortable |-> Some(SortableMeta(<<"b">>, "b"))] >>

\* a row as the base query selects it: every column under its name, the id also under
\* the property name
Selected(row) == [id |-> row.id, a |-> row.a, b |-> row.b, ident |-> row.id]

KeyOptions ==
    {[Options(Some("cursor"), None, None, None) EXCEPT !.defaultSort = ds] :
        ds \in {None, Some(SomeDefaultSort)}}

InitKeys ==
    /\ dto \in {[options |-> o, props |-> KeyProps] : o \in KeyOptions}
    /\ \E sb \in {Undef, Str(<<"a">>), Str(<<"b">>), Str(<<"k">>), Str(<<"a", ",", "k">>)},
          so \in {Undef, Str(S_desc)}, lm \in {Str(<<"1">>), Str(<<"2">>)} :
          params = [NoParams EXCEPT !.sortBy = sb, !.sortOrder = so, !.limit = lm]
    /\ extra = <<>>
    /\ db \in {{Selected(r) : r \in t} : t \in SomeTables}
    /\ pc = "parse"
    /\ request = NoRequest
    /\ error = NoError
    /\ queries = <<>>
    /\ response = NoResponse
    /\ visited = <<>>
    /\ whereArgs = NoCall
    /\ whereResult = NoCall
    /\ filterArgs = NoCall
    /\ filterResult = NoCall
    /\ calls = <<>>
    /\ writes = NoCall

NextKeys == Parse \/ Execute \/ Follow

SpecKeys == InitKeys /\ [][NextKeys]_vars

\* C27: a cursor returned by execute and passed back with the same parameters is never
\* refused for a missing field or a missing id, under every sort list: chosen by the
\* request or the default sort, the id appended or named by the request under its
\* property name
C27_CursorAccepted ==
    (pc = "done" /\ request # NoRequest /\ Truthy(request.cursor) /\ error # NoError) =>
        error.code \notin {"CursorMissingId", "CursorMissingValue"}

-----------------------------------------------------------------------------
(* Specification of a whole traversal: the client fetches the first page and follows
   every cursor it is sent; each fetch is recorded *)

InitFetches ==
    /\ dto = [options |-> Options(Some("cursor"), None, None, None), props |-> Props]
    /\ \E sc \in {<<Undef, Undef>>, <<Str(S_a), Str(S_desc)>>, <<Str(S_ab), Str(S_asc_desc)>>},
          lm \in {Str(<<"1">>), Str(<<"2">>)}, fa \in {Undef, Str(<<"0">>)} :
          params = [NoParams EXCEPT !.sortBy = sc[1], !.sortOrder = sc[2], !.limit = lm,
                                    !.a = fa]
    /\ extra = <<>>
    /\ db \in Tables
    /\ pc = "parse"
    /\ request = NoRequest
    /\ error = NoError
    /\ queries = <<>>
    /\ response = NoResponse
    /\ visited = <<>>
    /\ whereArgs = NoCall
    /\ whereResult = NoCall
    /\ filterArgs = NoCall
    /\ filterResult = NoCall
    /\ calls = <<>>
    /\ writes = NoCall

\* PaginationService.execute for the request of the traversal; the call is recorded
Fetch ==
    /\ pc = "execute"
    /\ Executed(execute(request, extra, db))
    /\ pc' = "done"
    /\ calls' = Append(calls, request)
    /\ UNCHANGED <<dto, params, extra, db, request, whereArgs, whereResult,
                   filterArgs, filterResult, writes>>

NextFetches == Parse \/ Fetch \/ Follow

\* the traversal can go on: a call is under way, or its response carries a cursor
CanGoOn == pc = "done" => (error = NoError /\ response.cursor # Null)

\* a step of the traversal, as far as the position of the client is concerned:
\* Parse, Fetch and Follow all move it, and one of them is enabled as long as CanGoOn
GoOn ==
    /\ CanGoOn
    /\ pc' \in {"parse", "execute", "done"}
    /\ pc' # pc

\* the client goes on as long as it has a cursor to follow
SpecFetches == InitFetches /\ [][NextFetches]_vars /\ WF_pc(GoOn)

\* the rows of the table that match the filter of the traversal
MatchingRows == {r \in db : params.a = Undef \/ r.a.n = DecVal(params.a.s)}

\* ceil(n / d)
CeilDiv(n, d) == (n + d - 1) \div d

\* the traversal has ended
TraversalEnded == pc = "done" /\ response.kind = "cursor" /\ response.cursor = Null

\* what holds after every fetch, but for the number of fetches
FetchesWell ==
    /\ error = NoError
    /\ response.kind = "cursor"
    /\ response.cursor # Null => Len(response.values) = request.limit

\* C28 as stated: the traversal ends after at most ceil(N / limit) fetches
C28_FetchBound ==
    pc = "done" =>
        /\ FetchesWell
        /\ Len(calls) <= CeilDiv(Cardinality(MatchingRows), request.limit)

\* the fetches of a traversal over n matching rows: one when there are none
FetchesFor(n, limit) == IF n = 0 THEN 1 ELSE CeilDiv(n, limit)

FetchesBounded ==
    pc = "done" =>
        /\ FetchesWell
        /\ Len(calls) <= FetchesFor(Cardinality(MatchingRows), request.limit)

\* C28: a traversal over a fixed table, with limit 1 or more, ends with a null cursor;
\* every fetch succeeds, a fetch that returns a cursor returns exactly limit rows, and
\* there are at most ceil(N / limit) fetches for N matching rows, one when there are none
C28_TraversalTerminates == [](FetchesBounded) /\ <>(TraversalEnded)

\* three matching rows fetched two by two: the second fetch ended the traversal
C28_Witness ==
    /\ TraversalEnded
    /\ request.limit = 2
    /\ Cardinality(MatchingRows) = 3
    /\ Len(calls) = 2
    /\ Len(visited) = 3

====
